---- MODULE Spec2Model ----
(***************************************************************************)
(* A model of pacman-json: the reverse-dependency index                    *)
(* (reverse_deps.rs), the projection and reconciliation of package         *)
(* records (info.rs, lib.rs) and the recursive dependency closure          *)
(* (recurse_deps.rs).                                                      *)
(*                                                                         *)
(* Option<T> values are sequences: <<>> is None and <<v>> is Some(v).      *)
(* Strings are TLA+ strings, so format!() is concatenation and the parse   *)
(* of a dependency string is done character by character.                  *)
(***************************************************************************)
EXTENDS Naturals, Sequences, FiniteSets, TLC

VARIABLES
    handle,        \* the alpm handle: the local database and the sync databases
    pkg_filters,   \* the PackageFilters of this invocation
    pc,            \* where the driver is: "idle", "recursing", "done", ...
    stack,         \* the call stack of recurse_dependencies, innermost frame last
    deps_set,      \* IndexSet<String>: name=version keys in insertion order
    deps_pkgs,     \* Vec<PackageInfo>: the records pushed so far
    stderr,        \* the eprintln! lines, in order
    rev_scan,      \* get_reverse_deps_map: the loop position and the map so far
    reverse_deps,  \* the ReverseDepsDatabase once built
    pkg_out,       \* the last result of generate_pkg_info or enrich_pkg_info
    prev_run,      \* the filters and the results of the run before this one
    sig_fold       \* fold_siglevels: its arguments, the lines left, the level

vars == <<handle, pkg_filters, pc, stack, deps_set, deps_pkgs, stderr,
          rev_scan, reverse_deps, pkg_out, prev_run, sig_fold>>

----------------------------------------------------------------------------
(* Option and small sequence helpers *)

None == <<>>

Some(v) == <<v>>

IsSome(o) == Len(o) = 1

Unwrap(o) == o[1]

Range(s) == {s[i] : i \in 1..Len(s)}

RECURSIVE Concat(_)
Concat(ss) == IF ss = <<>> THEN <<>> ELSE Head(ss) \o Concat(Tail(ss))

----------------------------------------------------------------------------
(* libalpm: versions, dependencies and their string form *)

\* the versions of the universe, oldest first
Versions == <<"1.0", "2.0", "3.0">>

VerRank(v) == CHOOSE i \in 1..Len(Versions) : Versions[i] = v

\* alpm_pkg_vercmp, on the versions of the universe
Vercmp(a, b) ==
    IF VerRank(a) < VerRank(b) THEN 0 - 1
    ELSE IF VerRank(a) > VerRank(b) THEN 1 ELSE 0

DepModSymbol(depmod) ==
    CASE depmod = "Any" -> ""
      [] depmod = "Eq" -> "="
      [] depmod = "Ge" -> ">="
      [] depmod = "Le" -> "<="
      [] depmod = "Gt" -> ">"
      [] depmod = "Lt" -> "<"

\* an alpm Dep: name, comparison, version (Option) and description (Option)
Dep(name, depmod, version, desc) ==
    [name |-> name, depmod |-> depmod, version |-> version, desc |-> desc]

\* Dep::to_string (alpm_dep_compute_string)
DepToString(dep) ==
    dep.name \o DepModSymbol(dep.depmod)
        \o (IF IsSome(dep.version) THEN Unwrap(dep.version) ELSE "")
        \o (IF IsSome(dep.desc) THEN ": " \o Unwrap(dep.desc) ELSE "")

\* the least member of a set of positions, or 0 when it is empty
FirstPosition(hits) ==
    IF hits = {} THEN 0 ELSE CHOOSE i \in hits : \A j \in hits : i <= j

\* the first position of s holding one of the one-character strings, or 0
FirstOf(s, chars) ==
    FirstPosition({i \in 1..Len(s) : SubSeq(s, i, i) \in chars})

\* the first position at which the two-character string sub starts in s, or 0
FindSub(s, sub) ==
    FirstPosition({i \in 1..(Len(s) - 1) : SubSeq(s, i, i + 1) = sub})

\* the comparison that starts at position p of body: "=", "<=", ">=", "<", ">"
DepModAt(body, p) ==
    IF SubSeq(body, p, p) = "=" THEN "Eq"
    ELSE IF p < Len(body) /\ SubSeq(body, p, p + 1) = "<=" THEN "Le"
    ELSE IF p < Len(body) /\ SubSeq(body, p, p + 1) = ">=" THEN "Ge"
    ELSE IF SubSeq(body, p, p) = "<" THEN "Lt"
    ELSE "Gt"

\* name, comparison and version of body, whose comparison starts at p (0: none)
DepSplitAt(body, p, desc) ==
    IF p = 0 THEN Dep(body, "Any", None, desc)
    ELSE Dep(SubSeq(body, 1, p - 1), DepModAt(body, p),
             Some(SubSeq(body, p + Len(DepModSymbol(DepModAt(body, p))),
                         Len(body))),
             desc)

\* the string before the description, and the description, split at dpos
DepSplitDesc(s, dpos) ==
    IF dpos = 0 THEN DepSplitAt(s, FirstOf(s, {"<", ">", "="}), None)
    ELSE DepSplitAt(SubSeq(s, 1, dpos - 1),
                    FirstOf(SubSeq(s, 1, dpos - 1), {"<", ">", "="}),
                    Some(SubSeq(s, dpos + 2, Len(s))))

\* alpm_dep_from_string: the parse find_satisfier applies to its argument
DepFromString(s) == DepSplitDesc(s, FindSub(s, ": "))

\* dep_vercmp: does version satisfy the comparison of dep
DepVercmp(version, dep) ==
    IF dep.depmod = "Any" THEN TRUE
    ELSE LET c == Vercmp(version, Unwrap(dep.version))
         IN CASE dep.depmod = "Eq" -> c = 0
              [] dep.depmod = "Ge" -> c >= 0
              [] dep.depmod = "Le" -> c <= 0
              [] dep.depmod = "Gt" -> c > 0
              [] dep.depmod = "Lt" -> c < 0

\* _alpm_depcmp_literal: the package itself answers the dependency
DepcmpLiteral(pkg, dep) ==
    pkg.name = dep.name /\ DepVercmp(pkg.version, dep)

\* _alpm_depcmp_provides: one of the package's provisions answers it
DepcmpProvides(dep, provides) ==
    \E i \in 1..Len(provides) :
        /\ provides[i].name = dep.name
        /\ \/ dep.depmod = "Any"
           \/ /\ provides[i].depmod = "Eq"
              /\ DepVercmp(Unwrap(provides[i].version), dep)

----------------------------------------------------------------------------
(* libalpm: packages and databases *)

\* a package of a database; every attribute this program only copies is
\* derived from the database and the name, so two packages never share one
Package(db, name, version, packager, reason, depends, optdepends, makedepends, checkdepends, provides) ==
    [db |-> db, name |-> name, version |-> version, packager |-> packager,
     reason |-> reason, depends |-> depends, optdepends |-> optdepends,
     makedepends |-> makedepends, checkdepends |-> checkdepends,
     provides |-> provides]

\* an attribute the program copies without reading it
Attr(pkg, field) == field \o ":" \o pkg.db \o "/" \o pkg.name

IsLocal(pkg) == pkg.db = "local"

\* Db::pkg: the package of that name, or an error (None)
DbPkg(db, name) ==
    IF \E i \in 1..Len(db.pkgs) : db.pkgs[i].name = name
    THEN Some(db.pkgs[FirstPosition(
             {i \in 1..Len(db.pkgs) : db.pkgs[i].name = name})])
    ELSE None

\* the first element of a sequence as an Option
FirstOrNone(s) == IF s = <<>> THEN None ELSE Some(s[1])

\* resolvedep, step 1: the packages of that name, database by database,
\* that satisfy the dependency
Literals(dbs, dep) ==
    SelectSeq(Concat([i \in 1..Len(dbs) |-> DbPkg(dbs[i], dep.name)]),
              LAMBDA pkg : DepcmpLiteral(pkg, dep))

\* resolvedep, step 2: the packages of another name that provide it
Providers(dbs, dep) ==
    SelectSeq(Concat([i \in 1..Len(dbs) |-> dbs[i].pkgs]),
              LAMBDA pkg : /\ pkg.name # dep.name
                           /\ DepcmpProvides(dep, pkg.provides))

\* resolvedep: a literal first, then a provider, an installed one preferred
ResolveDep(h, dbs, dep) ==
    FirstOrNone(
        Literals(dbs, dep)
        \o SelectSeq(Providers(dbs, dep),
                     LAMBDA pkg : IsSome(DbPkg(h.localdb, pkg.name)))
        \o Providers(dbs, dep))

\* AlpmList<Db>::find_satisfier (alpm_find_dbs_satisfier)
FindSatisfier(h, dbs, dep_string) ==
    ResolveDep(h, dbs, DepFromString(dep_string))

----------------------------------------------------------------------------
(* info.rs: the records that are serialized *)

\* DepInfo::from
DepInfoFrom(dep) ==
    [dep_string  |-> DepToString(dep),
     name        |-> dep.name,
     depmod      |-> dep.depmod,
     version     |-> dep.version,
     description |-> dep.desc,
     name_hash   |-> "sdbm(" \o dep.name \o ")",
     satisfier   |-> None]

\* PacList<DepInfo>::from(AlpmList<&Dep>)
PacListFrom(deps) == [i \in 1..Len(deps) |-> DepInfoFrom(deps[i])]

\* alpm's has_scriptlet: in these universes the installed packages carry an
\* install script and the packages of the sync databases carry none
HasScriptlet(pkg) == IsLocal(pkg)

\* PackageInfo::from(&Package): every field read from the package; the
\* reverse dependencies empty, key_id and sync_with absent
PackageInfoFrom(pkg) ==
    [repository        |-> Some(pkg.db),
     name              |-> pkg.name,
     version           |-> pkg.version,
     description       |-> Some(Attr(pkg, "desc")),
     architecture      |-> Some(Attr(pkg, "arch")),
     url               |-> Some(Attr(pkg, "url")),
     licenses          |-> <<Attr(pkg, "license")>>,
     groups            |-> <<Attr(pkg, "group")>>,
     provides          |-> PacListFrom(pkg.provides),
     depends_on        |-> PacListFrom(pkg.depends),
     optional_deps     |-> PacListFrom(pkg.optdepends),
     makedepends       |-> PacListFrom(pkg.makedepends),
     checkdepends      |-> PacListFrom(pkg.checkdepends),
     conflicts_with    |-> <<>>,
     replaces          |-> <<>>,
     required_by       |-> {},
     optional_for      |-> {},
     required_by_make  |-> {},
     required_by_check |-> {},
     download_size     |-> Attr(pkg, "size"),
     installed_size    |-> Attr(pkg, "isize"),
     packager          |-> Some(pkg.packager),
     build_date        |-> Attr(pkg, "build_date"),
     install_date      |-> IF IsLocal(pkg) THEN Some(Attr(pkg, "install_date"))
                           ELSE None,
     install_reason    |-> pkg.reason,
     install_script    |-> HasScriptlet(pkg),
     md5_sum           |-> IF IsLocal(pkg) THEN None ELSE Some(Attr(pkg, "md5")),
     sha_256_sum       |-> IF IsLocal(pkg) THEN None
                           ELSE Some(Attr(pkg, "sha256")),
     signatures        |-> IF IsLocal(pkg) THEN None ELSE Some(Attr(pkg, "sig")),
     key_id            |-> None,
     validated_by      |-> Attr(pkg, "validation"),
     sync_with         |-> None]

\* PackageInfo::new(handle, pkg, sync), the constructor lib.rs calls: the
\* projection of the package, its lazy fields absent
PackageInfoNew(h, pkg, sync) == PackageInfoFrom(pkg)

\* add_sync_info: the local record, the sync record boxed into sync_with
AddSyncInfo(local_info, sync_info) ==
    [local_info EXCEPT !.sync_with = Some(sync_info)]

\* what decode_signature and extract_keyid, both external, leave in res: the
\* diagnostic of either failure, or the key IDs extracted, none, one or two
KeyidResults(pkg_info) ==
    {<<"Error(decode_signature)">>, <<"Error(extract_keyid:" \o pkg_info.name \o ")">>,
     <<>>, <<"key1:" \o pkg_info.name>>,
     <<"key1:" \o pkg_info.name, "key2:" \o pkg_info.name>>}

\* decode_keyid: the record unchanged without signatures, res stored otherwise
DecodeKeyid(pkg_info, res) ==
    IF pkg_info.signatures = None THEN pkg_info
    ELSE [pkg_info EXCEPT !.key_id = Some(res)]

\* an overlay whose companion keeps a companion of its own
AddLocalInfoNested(sync_info, local_info) ==
    [sync_info EXCEPT !.install_date   = local_info.install_date,
                      !.install_reason = local_info.install_reason,
                      !.install_script = local_info.install_script,
                      !.sync_with      = Some([local_info EXCEPT
                                              !.sync_with = Some(sync_info)])]

\* an overlay that forgets the install-script flag
AddLocalInfoWithoutScript(sync_info, local_info) ==
    [sync_info EXCEPT !.install_date   = local_info.install_date,
                      !.install_reason = local_info.install_reason,
                      !.sync_with      = Some(local_info)]

\* add_local_info: the sync record with the three install fields of the
\* local record, the local record boxed into sync_with
AddLocalInfo(sync_info, local_info) ==
    [sync_info EXCEPT !.install_date   = local_info.install_date,
                      !.install_reason = local_info.install_reason,
                      !.install_script = local_info.install_script,
                      !.sync_with      = Some(local_info)]

----------------------------------------------------------------------------
(* reverse_deps.rs *)

\* the four dependency kinds, named by the field of ReverseDepsDatabase
Kinds == {"optional_for", "required_by", "required_by_make",
          "required_by_check"}

\* the closures of ReverseDepsDatabase::from, one per kind
GetDependencies(kind, pkg) ==
    CASE kind = "optional_for" -> pkg.optdepends
      [] kind = "required_by" -> pkg.depends
      [] kind = "required_by_make" -> pkg.makedepends
      [] kind = "required_by_check" -> pkg.checkdepends

\* HashMap::get: Some(set) for a key, None otherwise
MapGet(map, key) == IF key \in DOMAIN map THEN Some(map[key]) ELSE None

\* an insertion that replaces the set stored under the key
RevInsertReplacing(map, dep_name, pkg_name) ==
    [k \in DOMAIN map \cup {dep_name} |->
        IF k = dep_name THEN {pkg_name} ELSE map[k]]

\* an insertion that stores a new key with ReverseDeps::new() alone
RevInsertEmptyNew(map, dep_name, pkg_name) ==
    IF dep_name \in DOMAIN map
    THEN [map EXCEPT ![dep_name] = @ \cup {pkg_name}]
    ELSE [k \in DOMAIN map \cup {dep_name} |->
            IF k = dep_name THEN {} ELSE map[k]]

\* the body of the innermost loop: entry(dep name).and_modify(insert the
\* package name).or_insert_with(the set of the package name alone)
RevInsert(map, dep_name, pkg_name) ==
    IF dep_name \in DOMAIN map
    THEN [map EXCEPT ![dep_name] = @ \cup {pkg_name}]
    ELSE [k \in DOMAIN map \cup {dep_name} |->
            IF k = dep_name THEN {pkg_name} ELSE map[k]]

\* the iterations of the three nested loops, in order: one pair
\* <<dep.name(), pkg.name()>> per declared dependency of every sync package
RevIterations(h, kind) ==
    Concat([d \in 1..Len(h.syncdbs) |->
        Concat([p \in 1..Len(h.syncdbs[d].pkgs) |->
            LET pkg  == h.syncdbs[d].pkgs[p]
                deps == GetDependencies(kind, pkg)
            IN [i \in 1..Len(deps) |-> <<deps[i].name, pkg.name>>]])])

RECURSIVE RevFold(_, _)
RevFold(its, map) ==
    IF its = <<>> THEN map
    ELSE RevFold(Tail(its), RevInsert(map, Head(its)[1], Head(its)[2]))

\* get_reverse_deps_map
GetReverseDepsMap(h, kind) == RevFold(RevIterations(h, kind), <<>>)

\* ReverseDepsDatabase::from
ReverseDepsDatabaseFrom(h) == [k \in Kinds |-> GetReverseDepsMap(h, k)]

\* add_reverse_deps: the set stored under the record's name, or the empty set
AddReverseDeps(pkg_info, rdeps) ==
    LET get(map) == LET o == MapGet(map, pkg_info.name)
                    IN IF IsSome(o) THEN Unwrap(o) ELSE {}
    IN [pkg_info EXCEPT !.required_by       = get(rdeps["required_by"]),
                        !.optional_for      = get(rdeps["optional_for"]),
                        !.required_by_make  = get(rdeps["required_by_make"]),
                        !.required_by_check = get(rdeps["required_by_check"])]

----------------------------------------------------------------------------
(* lib.rs *)

\* the order in which ReverseDepsDatabase::from builds its four maps
KindOrder == <<"optional_for", "required_by", "required_by_make",
               "required_by_check">>

\* get_databases: the sync databases, or the local database alone
GetDatabases(h, sync) == IF sync THEN h.syncdbs ELSE <<h.localdb>>

\* a lookup that gives up after the first database
FindInFirstDatabase(dbs, package_name) ==
    IF dbs = <<>> THEN None ELSE DbPkg(dbs[1], package_name)

\* find_in_databases: the package of the first database that has the name;
\* None stands for the error returned after the last database
FindInDatabases(dbs, package_name) ==
    LET found == SelectSeq([i \in 1..Len(dbs) |-> DbPkg(dbs[i], package_name)],
                           IsSome)
    IN IF found = <<>> THEN None ELSE found[1]

\* a comparison of the packagers alone
SamePackager(local_info, sync_info) ==
    local_info.packager = sync_info.packager

\* lines 88-90: the local and the sync record agree on packager and version
SamePackagerAndVersion(local_info, sync_info) ==
    /\ local_info.packager = sync_info.packager
    /\ local_info.version = sync_info.version

\* PackageFilters::enrich_pkg_info
EnrichPkgInfo(f, h, pkg_info) ==
    LET complementary_pkg ==
            FindInDatabases(GetDatabases(h, ~f.sync), pkg_info.name)
        complementary_info ==
            PackageInfoNew(h, Unwrap(complementary_pkg), ~f.sync)
    IN IF ~IsSome(complementary_pkg) THEN pkg_info
       ELSE IF f.sync THEN AddLocalInfo(pkg_info, complementary_info)
       ELSE IF SamePackagerAndVersion(pkg_info, complementary_info)
            THEN AddLocalInfo(complementary_info, pkg_info)
            ELSE AddSyncInfo(pkg_info, complementary_info)

\* a filter that does not look at recurse
NotExplicitWhateverRecurse(f, pkg) ==
    ~f.all /\ pkg.reason # "Explicit"

\* lines 55-57: is the package left out by the filters (the bail!() error)
NotExplicit(f, pkg) ==
    ~IsSome(f.recurse) /\ ~f.all /\ pkg.reason # "Explicit"

\* an enrichment that does not look at the plain filter
EnrichedAlways(f, h, pkg) == EnrichPkgInfo(f, h, PackageInfoNew(h, pkg, f.sync))

\* lines 58-61: the record of the package, enriched unless plain is set
Enriched(f, h, pkg) ==
    IF ~f.plain THEN EnrichPkgInfo(f, h, PackageInfoNew(h, pkg, f.sync))
    ELSE PackageInfoNew(h, pkg, f.sync)

\* lines 74-77 of a generate_pkg_info call: the error of find_in_databases
\* is printed when the complementary databases do not have the package
GenerateStderr(f, h, pkg) ==
    IF /\ ~NotExplicit(f, pkg)
       /\ ~f.plain
       /\ ~IsSome(FindInDatabases(GetDatabases(h, ~f.sync), pkg.name))
    THEN <<<<"not found in the sync databases", pkg.name>>>>
    ELSE <<>>

\* PackageFilters::generate_pkg_info: None stands for the bail!() error
GeneratePkgInfo(f, h, pkg, rdeps) ==
    IF NotExplicit(f, pkg) THEN None
    ELSE Some(AddReverseDeps(Enriched(f, h, pkg), rdeps))

----------------------------------------------------------------------------
(* recurse_deps.rs: recurse_dependencies as a machine with an explicit stack *)

\* format!("{}={}", name, version)
SatisfierKey(name, version) == name \o "=" \o version

\* an insertion that only an empty set takes
IndexSetInsertIfEmpty(set, key) ==
    IF set = <<>> THEN <<key>> ELSE set

\* an insertion at the front
IndexSetInsertFront(set, key) ==
    IF key \in Range(set) THEN set ELSE <<key>> \o set

\* IndexSet::insert: appended unless already a member
IndexSetInsert(set, key) ==
    IF key \in Range(set) THEN set ELSE Append(set, key)

\* a membership test that never finds the key
IndexSetContainsNever(set, key) == FALSE

\* IndexSet::contains
IndexSetContains(set, key) == key \in Range(set)

\* the specification returned as it was declared
WithoutSatisfier(dep, satisfier) == dep

\* lines 64-67: DepInfo { satisfier: Some(satisfier), ..dep.clone() }
WithSatisfier(dep, satisfier) == [dep EXCEPT !.satisfier = Some(satisfier)]

\* a push at the front of the list
PushFront(pkgs, summary, pkg_info) ==
    IF summary THEN pkgs ELSE <<pkg_info>> \o pkgs

\* a push that ignores the summary filter
PushAlways(pkgs, summary, pkg_info) == Append(pkgs, pkg_info)

\* lines 82-86: the record is pushed unless the summary filter is set
PushRecord(pkgs, summary, pkg_info) ==
    IF summary THEN pkgs ELSE Append(pkgs, pkg_info)

\* the frame of one call: the record, the depth, the list being mapped
\* ("depends", "optional") or "push" once both are done, the position in
\* that list, the DepInfos collected so far and, while a recursive call for
\* the current dependency runs, the satisfier key computed before the call
Frame(pkg_info, depth) ==
    [pkg_info |-> pkg_info, depth |-> depth, phase |-> "depends", i |-> 1,
     acc |-> <<>>, pending |-> None]

Top == stack[Len(stack)]

\* the list the closure satisfied_dependencies is mapping in frame fr
CurrentList(fr) ==
    IF fr.phase = "depends" THEN fr.pkg_info.depends_on
    ELSE fr.pkg_info.optional_deps

Mapping(fr) ==
    /\ fr.phase \in {"depends", "optional"}
    /\ ~IsSome(fr.pending)
    /\ fr.i <= Len(CurrentList(fr))

\* the databases the driver passes to recurse_dependencies
RecurseDatabases == GetDatabases(handle, pkg_filters.sync)

\* the satisfier of the dependency the top frame is at
CurrentSatisfier ==
    FindSatisfier(handle, RecurseDatabases, CurrentList(Top)[Top.i].dep_string)

\* optional_deps mapped whatever the filter
AfterDependsAlwaysOptional(optional) == "optional"

\* lines 71-80: match pkg_filters.optional: what follows depends_on
AfterDepends(optional) == IF optional THEN "optional" ELSE "push"

\* lines 71-81, one list: a frame whose list is mapped to its end has the
\* collected DepInfos put in place of the list; optional_deps follows
\* depends_on only when the optional filter is set, and then the record is
\* ready to be pushed
CollectList(fr) ==
    IF fr.phase = "push" \/ fr.i <= Len(CurrentList(fr)) THEN fr
    ELSE IF fr.phase = "depends"
    THEN [fr EXCEPT !.pkg_info.depends_on = fr.acc,
                    !.phase = AfterDepends(pkg_filters.optional),
                    !.i = 1, !.acc = <<>>]
    ELSE [fr EXCEPT !.pkg_info.optional_deps = fr.acc,
                    !.phase = "push", !.i = 1, !.acc = <<>>]

\* lines 71-81: depends_on first, then optional_deps
Collect(fr) == CollectList(CollectList(fr))

\* lines 25-29: the entry of a call, seen from the caller's stack
Enter(stk, printed, pkg_info, depth) ==
    /\ stderr' = stderr \o printed
                     \o <<<<"recursing into", depth, pkg_info.name>>>>
    /\ deps_set' = IndexSetInsert(deps_set,
                       SatisfierKey(pkg_info.name, pkg_info.version))
    /\ stack' = Append(stk, Collect(Frame(pkg_info, depth)))

\* the dependency at position i of the frame done, its DepInfo collected
Advance(fr, dep_info) ==
    Collect([fr EXCEPT !.acc = Append(@, dep_info), !.i = @ + 1,
                       !.pending = None])

ReplaceTop(stk, fr) == [stk EXCEPT ![Len(stk)] = fr]

\* a specification without satisfier marked as answered by itself
UnsatisfiedAsItself(dep) == [dep EXCEPT !.satisfier = Some(dep.dep_string)]

\* line 38: None => return dep.clone()
Unsatisfied(dep) == dep

\* lines 36-39: no satisfier, the specification is kept as it is
MapUnsatisfied ==
    /\ pc = "recursing"
    /\ Mapping(Top)
    /\ ~IsSome(CurrentSatisfier)
    /\ stack' = ReplaceTop(stack,
                          Advance(Top, Unsatisfied(CurrentList(Top)[Top.i])))
    /\ UNCHANGED <<handle, pkg_filters, pc, deps_set, deps_pkgs, stderr,
                   rev_scan, reverse_deps, pkg_out, prev_run, sig_fold>>

\* lines 40-55: a satisfier not yet in deps_set: its record is generated
\* (or, on error, projected) and the call is made
MapRecurse ==
    /\ pc = "recursing"
    /\ Mapping(Top)
    /\ IsSome(CurrentSatisfier)
    /\ LET pkg == Unwrap(CurrentSatisfier)
           satisfier == SatisfierKey(pkg.name, pkg.version)
           generated == GeneratePkgInfo(pkg_filters, handle, pkg, reverse_deps)
           pkg_info == IF IsSome(generated) THEN Unwrap(generated)
                       ELSE PackageInfoFrom(pkg)
       IN /\ ~IndexSetContains(deps_set, satisfier)
          /\ Enter(ReplaceTop(stack, [Top EXCEPT !.pending = Some(satisfier)]),
                   GenerateStderr(pkg_filters, handle, pkg),
                   pkg_info, Top.depth + 1)
    /\ UNCHANGED <<handle, pkg_filters, pc, deps_pkgs, rev_scan, reverse_deps,
                   pkg_out, prev_run, sig_fold>>

\* lines 56-67: a satisfier already in deps_set: reported as duplicated, its
\* key recorded on the specification, no call
MapDuplicate ==
    /\ pc = "recursing"
    /\ Mapping(Top)
    /\ IsSome(CurrentSatisfier)
    /\ LET pkg == Unwrap(CurrentSatisfier)
           satisfier == SatisfierKey(pkg.name, pkg.version)
           dep == CurrentList(Top)[Top.i]
       IN /\ IndexSetContains(deps_set, satisfier)
          /\ stderr' = Append(stderr, <<"duplicated dependency", Top.depth + 1,
                                        satisfier, dep.dep_string>>)
          /\ stack' = ReplaceTop(stack,
                 Advance(Top, WithSatisfier(dep, satisfier)))
    /\ UNCHANGED <<handle, pkg_filters, pc, deps_set, deps_pkgs, rev_scan,
                   reverse_deps, pkg_out, prev_run, sig_fold>>

\* lines 82-86 and, back in the caller, lines 64-67: the record is pushed
\* unless summary is set; the caller records the satisfier key
Return ==
    /\ pc = "recursing"
    /\ Top.phase = "push"
    /\ deps_pkgs' = PushRecord(deps_pkgs, pkg_filters.summary, Top.pkg_info)
    /\ LET rest == SubSeq(stack, 1, Len(stack) - 1)
       IN IF rest = <<>>
          THEN stack' = rest /\ pc' = "done"
          ELSE LET caller == rest[Len(rest)]
                   dep == CurrentList(caller)[caller.i]
               IN /\ stack' = ReplaceTop(rest, Advance(caller,
                        WithSatisfier(dep, Unwrap(caller.pending))))
                  /\ pc' = pc
    /\ UNCHANGED <<handle, pkg_filters, deps_set, stderr, rev_scan,
                   reverse_deps, pkg_out, prev_run, sig_fold>>

\* the driver: the root named by --recurse is looked up in the databases
\* of the query, its record generated, and the recursion started at depth 0
\* with a fresh deps_set and deps_pkgs; a root no database has ends the run
StartRecurse ==
    /\ pc = "idle"
    /\ IsSome(pkg_filters.recurse)
    /\ LET root == FindInDatabases(RecurseDatabases,
                                   Unwrap(pkg_filters.recurse))
           generated == GeneratePkgInfo(pkg_filters, handle, Unwrap(root),
                                        reverse_deps)
       IN IF IsSome(root)
          THEN /\ Enter(<<>>,
                        GenerateStderr(pkg_filters, handle, Unwrap(root)),
                        Unwrap(generated), 0)
               /\ pc' = "recursing"
          ELSE /\ pc' = "done"
               /\ UNCHANGED <<stack, deps_set, stderr>>
    /\ UNCHANGED <<handle, pkg_filters, deps_pkgs, rev_scan, reverse_deps,
                   pkg_out, prev_run, sig_fold>>

----------------------------------------------------------------------------
(* the universes and filters the closure is checked on *)

\* the number of packages of a universe
NumPkgs == 4

\* the longest runtime-dependency list of the root package
MaxRootDeps == 2

\* the longest runtime-dependency list of any other package
MaxSubDeps == 1

AllNames == <<"A", "B", "C", "D", "E", "F">>

Names == SubSeq(AllNames, 1, NumPkgs)

\* a name no package has and no package provides
Missing == "Z"

Targets == Range(Names) \cup {Missing}

SeqsUpTo(S, n) == UNION {[1..k -> S] : k \in 0..n}

Distinct(s) == \A i, j \in 1..Len(s) : i # j => s[i] # s[j]

\* a list of unversioned dependencies on the names of s
PlainDeps(s) == [i \in 1..Len(s) |-> Dep(s[i], "Any", None, None)]

Filters(sync, all, plain, recurse, optional, summary) ==
    [sync |-> sync, all |-> all, plain |-> plain, recurse |-> recurse,
     optional |-> optional, summary |-> summary]

Db(name, pkgs) == [name |-> name, pkgs |-> pkgs]

Handle(local_pkgs, core_pkgs, extra_pkgs) ==
    [localdb |-> Db("local", local_pkgs),
     syncdbs |-> <<Db("core", core_pkgs), Db("extra", extra_pkgs)>>]

NoReverseDeps == [k \in Kinds |-> <<>>]

InitIdle ==
    /\ pc = "idle"
    /\ stack = <<>>
    /\ deps_set = <<>>
    /\ deps_pkgs = <<>>
    /\ stderr = <<>>
    /\ rev_scan = None
    /\ pkg_out = None
    /\ prev_run = None
    /\ sig_fold = None

\* the packages of one database: every name at the same version, packager
\* and install reason (the root A always explicit), the dependency lists given
\* per name; D provides the virtual package V
DbPackages(db, version, packager, reason, deps, opts) ==
    [i \in 1..NumPkgs |->
        Package(db, Names[i], version, packager,
                IF Names[i] = "A" THEN "Explicit" ELSE reason,
                deps[Names[i]], opts[Names[i]], <<>>, <<>>,
                IF Names[i] = "D" THEN <<Dep("V", "Any", None, None)>>
                ELSE <<>>)]

\* what the complementary side holds: nothing, the same packages (same
\* version and packager), or the packages at another version and packager
Complementary(db, variant, deps, opts) ==
    CASE variant = "none" -> <<>>
      [] variant = "same" ->
            DbPackages(db, "1.0", "x",
                       IF db = "local" THEN "Depend" ELSE "Explicit",
                       deps, opts)
      [] variant = "differs" ->
            DbPackages(db, "2.0", "y",
                       IF db = "local" THEN "Depend" ELSE "Explicit",
                       deps, opts)

\* the second sync database: a newer B that depends on C
ExtraPackages ==
    <<Package("extra", "B", "2.0", "y", "Explicit", PlainDeps(<<"C">>),
              <<>>, <<>>, <<>>, <<>>)>>

\* a universe whose queried side (local, or core when sync is set) holds
\* every package at version 1.0
Universe(sync, variant, deps, opts) ==
    IF sync
    THEN Handle(Complementary("local", variant, deps, opts),
                DbPackages("core", "1.0", "x", "Explicit", deps, opts),
                ExtraPackages)
    ELSE Handle(DbPackages("local", "1.0", "x", "Depend", deps, opts),
                Complementary("core", variant, deps, opts),
                IF variant = "none" THEN <<>> ELSE ExtraPackages)

NoDeps == [n \in Range(Names) |-> <<>>]

\* the dependency graphs: every package installed, nothing in the sync
\* databases; the root A with any list of up to MaxRootDeps distinct
\* targets, every other package with any list of up to MaxSubDeps targets
\* other than itself
InitGraphs ==
    /\ \E root_deps \in {s \in SeqsUpTo(Targets, MaxRootDeps) : Distinct(s)},
          sub_deps \in {f \in [Range(Names) \ {"A"} ->
                                  SeqsUpTo(Targets, MaxSubDeps)] :
                            \A n \in DOMAIN f : n \notin Range(f[n])} :
          handle = Universe(FALSE, "none",
                      [n \in Range(Names) |->
                          PlainDeps(IF n = "A" THEN root_deps ELSE sub_deps[n])],
                      NoDeps)
    /\ pkg_filters = Filters(FALSE, FALSE, TRUE, Some("A"), FALSE, FALSE)

\* the dependencies the root declares in InitVariants: plain, missing,
\* versioned beyond what the queried side holds, and virtual
RootSpecs ==
    {Dep("B", "Any", None, None), Dep("C", "Any", None, None),
     Dep(Missing, "Any", None, None), Dep("B", "Ge", Some("2.0"), None),
     Dep("V", "Any", None, None)}

\* the optional dependencies the root declares in InitVariants
RootOptionals ==
    {<<Dep("D", "Any", None, Some("for extras"))>>,
     <<Dep(Missing, "Any", None, None), Dep("C", "Lt", Some("2.0"), None)>>}

\* the filters and the two sides: both databases populated in the three
\* ways, queried from either side, plain or enriched, with and without
\* optional dependencies, over a smaller set of graphs
InitVariants ==
    \E sync, plain, optional \in BOOLEAN,
       variant \in {"none", "same", "differs"},
       root_deps \in {s \in SeqsUpTo(RootSpecs, MaxRootDeps) : Distinct(s)},
       root_opts \in RootOptionals,
       b_deps \in {<<"D">>, <<"A">>},
       c_deps \in {<<>>, <<"D">>} :
        /\ plain => variant = "none"
        /\ handle = Universe(sync, variant,
                      [n \in Range(Names) |->
                          CASE n = "A" -> root_deps
                            [] n = "B" -> PlainDeps(b_deps)
                            [] n = "C" -> PlainDeps(c_deps)
                            [] OTHER -> <<>>],
                      [n \in Range(Names) |->
                          IF n = "A" THEN root_opts ELSE <<>>])
        /\ pkg_filters = Filters(sync, FALSE, plain, Some("A"), optional, FALSE)

Init ==
    /\ InitIdle
    /\ InitGraphs \/ InitVariants
    /\ reverse_deps = ReverseDepsDatabaseFrom(handle)

\* the driver runs the same query again with the summary filter flipped,
\* on fresh closure state, keeping what the first run produced
Rerun ==
    /\ pc = "done"
    /\ prev_run = None
    /\ prev_run' = Some([rerun |-> "summary", handle |-> handle,
                         pkg_filters |-> pkg_filters, deps_set |-> deps_set,
                         deps_pkgs |-> deps_pkgs, stderr |-> stderr])
    /\ pkg_filters' = [pkg_filters EXCEPT !.summary = ~@]
    /\ pc' = "idle"
    /\ stack' = <<>>
    /\ deps_set' = <<>>
    /\ deps_pkgs' = <<>>
    /\ stderr' = <<>>
    /\ UNCHANGED <<handle, rev_scan, reverse_deps, pkg_out, sig_fold>>

\* does find_satisfier, over the databases of the query, answer the string
Satisfiable(h, f, dep_string) ==
    IsSome(FindSatisfier(h, GetDatabases(h, f.sync), dep_string))

\* the dependencies of a declared list that have a satisfier
SatisfiableDeps(h, f, deps) ==
    SelectSeq(deps, LAMBDA dep : Satisfiable(h, f, DepToString(dep)))

\* the packages with the unsatisfiable specifications taken out of the
\* lists the filters make the closure follow
StripPackages(h, f, pkgs) ==
    [i \in 1..Len(pkgs) |->
        [pkgs[i] EXCEPT
            !.depends = SatisfiableDeps(h, f, @),
            !.optdepends = IF f.optional THEN SatisfiableDeps(h, f, @)
                           ELSE @]]

\* the universe without the specifications no package satisfies
StripUnsatisfiable(h, f) ==
    [localdb |-> Db(h.localdb.name, StripPackages(h, f, h.localdb.pkgs)),
     syncdbs |-> [d \in 1..Len(h.syncdbs) |->
                    Db(h.syncdbs[d].name,
                       StripPackages(h, f, h.syncdbs[d].pkgs))]]

\* the driver runs the same query on the universe without its
\* unsatisfiable specifications, on fresh closure state and a fresh index,
\* keeping what the first run produced
RerunStripped ==
    /\ pc = "done"
    /\ prev_run = None
    /\ StripUnsatisfiable(handle, pkg_filters) # handle
    /\ prev_run' = Some([rerun |-> "stripped", handle |-> handle,
                         pkg_filters |-> pkg_filters, deps_set |-> deps_set,
                         deps_pkgs |-> deps_pkgs, stderr |-> stderr])
    /\ handle' = StripUnsatisfiable(handle, pkg_filters)
    /\ reverse_deps' = ReverseDepsDatabaseFrom(handle')
    /\ pc' = "idle"
    /\ stack' = <<>>
    /\ deps_set' = <<>>
    /\ deps_pkgs' = <<>>
    /\ stderr' = <<>>
    /\ UNCHANGED <<pkg_filters, rev_scan, pkg_out, sig_fold>>

Next ==
    \/ StartRecurse
    \/ MapUnsatisfied
    \/ MapRecurse
    \/ MapDuplicate
    \/ Return
    \/ Rerun
    \/ RerunStripped

Spec == Init /\ [][Next]_vars

----------------------------------------------------------------------------
(* the reverse-dependency index, built step by step *)

\* the state of one call of get_reverse_deps_map: the kind, the next
\* iteration of the nested loops and the map so far
Scan(kind) == [kind |-> kind, i |-> 1, map |-> <<>>]

\* ReverseDepsDatabase::from begins with its first map
ScanStart ==
    /\ pc = "idle"
    /\ rev_scan = None
    /\ rev_scan' = Some(Scan(KindOrder[1]))
    /\ pc' = "indexing"
    /\ UNCHANGED <<handle, pkg_filters, stack, deps_set, deps_pkgs, stderr,
                   reverse_deps, pkg_out, prev_run, sig_fold>>

\* one iteration of the innermost loop of get_reverse_deps_map
ScanStep ==
    /\ pc = "indexing"
    /\ LET sc  == Unwrap(rev_scan)
           its == RevIterations(handle, sc.kind)
       IN /\ sc.i <= Len(its)
          /\ rev_scan' = Some([sc EXCEPT
                 !.map = RevInsert(@, its[sc.i][1], its[sc.i][2]),
                 !.i = @ + 1])
    /\ UNCHANGED <<handle, pkg_filters, pc, stack, deps_set, deps_pkgs, stderr,
                   reverse_deps, pkg_out, prev_run, sig_fold>>

\* the loops are over: the map is returned into its field, and the next map
\* is begun or the database is complete
ScanEnd ==
    /\ pc = "indexing"
    /\ LET sc == Unwrap(rev_scan)
           k  == CHOOSE n \in 1..Len(KindOrder) : KindOrder[n] = sc.kind
       IN /\ sc.i > Len(RevIterations(handle, sc.kind))
          /\ reverse_deps' = [reverse_deps EXCEPT ![sc.kind] = sc.map]
          /\ IF k < Len(KindOrder)
             THEN rev_scan' = Some(Scan(KindOrder[k + 1])) /\ pc' = pc
             ELSE rev_scan' = None /\ pc' = "indexed"
    /\ UNCHANGED <<handle, pkg_filters, stack, deps_set, deps_pkgs, stderr,
                   pkg_out, prev_run, sig_fold>>

\* every package of every database
AllPackages ==
    Range(handle.localdb.pkgs)
        \cup UNION {Range(handle.syncdbs[d].pkgs) : d \in 1..Len(handle.syncdbs)}

\* what a query of one package leaves in pkg_out: the package, the record
\* before the reverse dependencies are added, and the Result returned
Output(pkg, pkg_info, result) ==
    [pkg |-> pkg, pkg_info |-> pkg_info, result |-> result]

\* add_reverse_deps applied to the projection of a package
Lookup(pkg) ==
    /\ pc = "indexed"
    /\ pkg_out' = Some(Output(pkg, PackageInfoFrom(pkg),
                     Some(AddReverseDeps(PackageInfoFrom(pkg), reverse_deps))))
    /\ pc' = "looked up"
    /\ UNCHANGED <<handle, pkg_filters, stack, deps_set, deps_pkgs, stderr,
                   rev_scan, reverse_deps, prev_run, sig_fold>>

\* the longest runtime-dependency list of a package of InitIndex
MaxIndexDeps == 2

\* the dependencies declared in InitIndex: the same name with and without a
\* version, and a name no package has
IndexSpecs ==
    {Dep("A", "Any", None, None), Dep("B", "Ge", Some("2.0"), None),
     Dep("B", "Any", None, None), Dep(Missing, "Eq", Some("1.0"), None)}

\* two sync databases that both hold an A, and an installed D whose
\* dependencies are not part of any sync database
InitIndex ==
    /\ InitIdle
    /\ pkg_filters = Filters(FALSE, TRUE, TRUE, None, FALSE, FALSE)
    /\ reverse_deps = NoReverseDeps
    /\ \E a_deps \in SeqsUpTo(IndexSpecs, MaxIndexDeps),
          b_deps \in SeqsUpTo(IndexSpecs, 1),
          a_opts \in {<<>>, <<Dep("C", "Any", None, Some("for more"))>>},
          c_make \in {<<>>, <<Dep("A", "Lt", Some("3.0"), None),
                            Dep("B", "Any", None, None)>>},
          c_check \in {<<>>, <<Dep("C", "Any", None, None)>>} :
          handle = Handle(
              <<Package("local", "D", "1.0", "x", "Explicit",
                        <<Dep("D", "Any", None, None)>>,
                        <<Dep("D", "Any", None, None)>>,
                        <<Dep("D", "Any", None, None)>>,
                        <<Dep("D", "Any", None, None)>>, <<>>)>>,
              <<Package("core", "A", "1.0", "x", "Explicit", a_deps, a_opts,
                        <<>>, <<>>, <<>>),
                Package("core", "B", "1.0", "x", "Explicit", b_deps, <<>>,
                        <<>>, <<>>, <<>>)>>,
              <<Package("extra", "C", "1.0", "x", "Explicit", <<>>, <<>>,
                        c_make, c_check, <<>>),
                Package("extra", "A", "2.0", "y", "Explicit",
                        <<Dep("C", "Any", None, None)>>, <<>>, <<>>, <<>>,
                        <<>>)>>)

NextIndex ==
    \/ ScanStart
    \/ ScanStep
    \/ ScanEnd
    \/ \E pkg \in AllPackages : Lookup(pkg)

SpecIndex == InitIndex /\ [][NextIndex]_vars

----------------------------------------------------------------------------
(* one package queried: generate_pkg_info *)

\* generate_pkg_info called by the driver's loop on a package of the
\* databases get_databases selects
Generate(pkg) ==
    /\ pc = "idle"
    /\ pkg_out = None
    /\ pkg_out' = Some(Output(pkg,
                     IF NotExplicit(pkg_filters, pkg) THEN None
                     ELSE Some(Enriched(pkg_filters, handle, pkg)),
                     GeneratePkgInfo(pkg_filters, handle, pkg, reverse_deps)))
    /\ stderr' = stderr \o GenerateStderr(pkg_filters, handle, pkg)
    /\ pc' = "generated"
    /\ UNCHANGED <<handle, pkg_filters, stack, deps_set, deps_pkgs, rev_scan,
                   reverse_deps, prev_run, sig_fold>>

\* the packages the driver iterates over
QueriedPackages ==
    UNION {Range(GetDatabases(handle, pkg_filters.sync)[d].pkgs) :
              d \in 1..Len(GetDatabases(handle, pkg_filters.sync))}

\* the result is handed to the output and the query of this package is over
Emit ==
    /\ pc = "generated"
    /\ pc' = "done"
    /\ UNCHANGED <<handle, pkg_filters, stack, deps_set, deps_pkgs, stderr,
                   rev_scan, reverse_deps, pkg_out, prev_run, sig_fold>>

\* the packagers of InitInfo
Packagers == {"x", "y"}

\* the install reasons of libalpm
Reasons == {"Explicit", "Depend"}

\* zero or one package A of a database, in every version and packager given
OneOrNone(db, versions, packagers, reasons, depends) ==
    {<<>>} \cup {<<Package(db, "A", v, p, r, depends, <<>>, <<>>, <<>>, <<>>)>> :
                    v \in versions, p \in packagers, r \in reasons}

\* a package A installed, in core, in extra, or any of them missing; B of
\* core requires A or does not
InitInfo ==
    /\ InitIdle
    /\ \E sync \in BOOLEAN, all \in BOOLEAN, plain \in BOOLEAN,
          recurse \in {None, Some("A")} :
          pkg_filters = Filters(sync, all, plain, recurse, FALSE, FALSE)
    /\ \E local_a \in OneOrNone("local", {"1.0", "2.0"}, Packagers, Reasons,
                               <<Dep("B", "Any", None, None)>>),
          core_a \in OneOrNone("core", {"1.0", "2.0"}, Packagers,
                               {"Explicit"}, <<>>),
          extra_a \in OneOrNone("extra", {"3.0"}, {"x"}, {"Explicit"}, <<>>),
          b_deps \in {<<>>, <<Dep("A", "Ge", Some("1.0"), None)>>} :
          handle = Handle(local_a,
                          core_a \o <<Package("core", "B", "1.0", "x",
                                      "Explicit", b_deps, <<>>, <<>>, <<>>,
                                      <<>>)>>,
                          extra_a)
    /\ reverse_deps = ReverseDepsDatabaseFrom(handle)

NextInfo ==
    \/ \E pkg \in QueriedPackages : Generate(pkg)
    \/ Emit

SpecInfo == InitInfo /\ [][NextInfo]_vars

----------------------------------------------------------------------------
(* single queries and closures over the same universes *)

\* zero or one package B of the local database
LocalB(depends) ==
    {<<>>, <<Package("local", "B", "1.0", "x", "Depend", depends, <<>>, <<>>, <<>>, <<>>)>>}

\* packages A and B, each installed or not, A in core or not and B in core;
\* A requires B on both sides and B requires A or does not; queried from
\* either side, plain or enriched, alone or as the root of a closure
InitAll ==
    /\ InitIdle
    /\ \E sync \in BOOLEAN, all \in BOOLEAN, plain \in BOOLEAN,
          recurse \in {None, Some("A")} :
          pkg_filters = Filters(sync, all, plain, recurse, FALSE, FALSE)
    /\ \E b_deps \in {<<>>, <<Dep("A", "Ge", Some("1.0"), None)>>} :
       \E local_a \in OneOrNone("local", {"1.0"}, Packagers, Reasons,
                               <<Dep("B", "Any", None, None)>>),
          core_a \in OneOrNone("core", {"1.0"}, {"x"}, {"Explicit"},
                               <<Dep("B", "Any", None, None)>>),
          local_b \in LocalB(b_deps) :
          handle = Handle(local_a \o local_b,
                          core_a \o <<Package("core", "B", "1.0", "x",
                                      "Explicit", b_deps, <<>>, <<>>, <<>>,
                                      <<>>)>>,
                          <<>>)
    /\ reverse_deps = ReverseDepsDatabaseFrom(handle)

\* decode_keyid on the record a single query returned
DecodeOutput ==
    /\ pc = "generated"
    /\ IsSome(pkg_out)
    /\ IsSome(Unwrap(pkg_out).result)
    /\ \E res \in KeyidResults(Unwrap(Unwrap(pkg_out).result)) :
          pkg_out' = Some([Unwrap(pkg_out) EXCEPT
                              !.result = Some(DecodeKeyid(Unwrap(@), res))])
    /\ UNCHANGED <<handle, pkg_filters, pc, stack, deps_set, deps_pkgs, stderr,
                   rev_scan, reverse_deps, prev_run, sig_fold>>

\* decode_keyid on a record of a finished closure
DecodePushed ==
    /\ pc = "done"
    /\ \E j \in 1..Len(deps_pkgs) : \E res \in KeyidResults(deps_pkgs[j]) :
          deps_pkgs' = [deps_pkgs EXCEPT ![j] = DecodeKeyid(@, res)]
    /\ UNCHANGED <<handle, pkg_filters, pc, stack, deps_set, stderr, rev_scan,
                   reverse_deps, pkg_out, prev_run, sig_fold>>

NextAll == Next \/ NextInfo \/ DecodeOutput \/ DecodePushed

SpecAll == InitAll /\ [][NextAll]_vars

----------------------------------------------------------------------------
(* siglevel.rs: process_siglevel and fold_siglevels *)

\* alpm::SigLevel: a set of these flags
SigFlags ==
    {"PACKAGE", "PACKAGE_OPTIONAL", "PACKAGE_MARGINAL_OK", "PACKAGE_UNKNOWN_OK",
     "DATABASE", "DATABASE_OPTIONAL", "DATABASE_MARGINAL_OK",
     "DATABASE_UNKNOWN_OK", "USE_DEFAULT"}

\* a set that keeps USE_DEFAULT
SlSetKeepingDefault(prev, sl) == prev \cup sl

\* slset: (prev | sl) & !USE_DEFAULT
SlSet(prev, sl) == (prev \cup sl) \ {"USE_DEFAULT"}

\* slunset: (prev & !sl) & !USE_DEFAULT
SlUnset(prev, sl) == (prev \ sl) \ {"USE_DEFAULT"}

package_trust_all == {"PACKAGE_MARGINAL_OK", "PACKAGE_UNKNOWN_OK"}

database_trust_all == {"DATABASE_MARGINAL_OK", "DATABASE_UNKNOWN_OK"}

\* a str is the sequence of its chars, each the number of its Unicode
\* scalar value; the letters and digits of ASCII, in the order of their values
Upper == "ABCDEFGHIJKLMNOPQRSTUVWXYZ"

Lower == "abcdefghijklmnopqrstuvwxyz"

Digits == "0123456789"

\* the position of a character in a string that holds it once
PositionOf(c, alphabet) ==
    FirstPosition({i \in 1..Len(alphabet) : SubSeq(alphabet, i, i) = c})

\* whether a string holds a character
Holds(alphabet, c) == \E i \in 1..Len(alphabet) : SubSeq(alphabet, i, i) = c

\* the scalar value of a character of a literal of this module: a letter, a
\* digit, the space, or one of the escapes \t, \n, \f and \r
CodeOf(c) ==
    CASE c = "\t" -> 9
      [] c = "\n" -> 10
      [] c = "\f" -> 12
      [] c = "\r" -> 13
      [] c = " " -> 32
      [] Holds(Digits, c) -> 47 + PositionOf(c, Digits)
      [] Holds(Upper, c) -> 64 + PositionOf(c, Upper)
      [] Holds(Lower, c) -> 96 + PositionOf(c, Lower)

\* the chars of a string literal
Chars(literal) == [i \in 1..Len(literal) |-> CodeOf(SubSeq(literal, i, i))]

\* '\n', the separator of split_terminator
LineFeed == 10

\* the characters str::trim removes, those of char::is_whitespace: the
\* White_Space property of Unicode, U+0009 to U+000D, U+0020, U+0085, U+00A0,
\* U+1680, U+2000 to U+200A, U+2028, U+2029, U+202F, U+205F and U+3000
Whitespace ==
    (9..13) \cup {32, 133, 160, 5760} \cup (8192..8202)
        \cup {8232, 8233, 8239, 8287, 12288}

RECURSIVE TrimStart(_)
\* str::trim_start
TrimStart(str) ==
    IF Len(str) > 0 /\ str[1] \in Whitespace
    THEN TrimStart(SubSeq(str, 2, Len(str)))
    ELSE str

RECURSIVE TrimEnd(_)
\* str::trim_end
TrimEnd(str) ==
    IF Len(str) > 0 /\ str[Len(str)] \in Whitespace
    THEN TrimEnd(SubSeq(str, 1, Len(str) - 1))
    ELSE str

\* str::trim
Trim(str) == TrimEnd(TrimStart(str))

\* the patterns of the match, but the empty one and the catch-all
PackageNever == Chars("PackageNever")

PackageOptional == Chars("PackageOptional")

PackageRequired == Chars("PackageRequired")

PackageTrustedOnly == Chars("PackageTrustedOnly")

PackageTrustAll == Chars("PackageTrustAll")

DatabaseNever == Chars("DatabaseNever")

DatabaseOptional == Chars("DatabaseOptional")

DatabaseRequired == Chars("DatabaseRequired")

DatabaseTrustedOnly == Chars("DatabaseTrustedOnly")

DatabaseTrustAll == Chars("DatabaseTrustAll")

Directives ==
    {PackageNever, PackageOptional, PackageRequired, PackageTrustedOnly,
     PackageTrustAll, DatabaseNever, DatabaseOptional, DatabaseRequired,
     DatabaseTrustedOnly, DatabaseTrustAll}

\* lines 90-99: the arm of a directive
Directive(x, prev) ==
    CASE x = PackageNever -> SlUnset(prev, {"PACKAGE"})
      [] x = PackageOptional -> SlSet(prev, {"PACKAGE", "PACKAGE_OPTIONAL"})
      [] x = PackageRequired -> SlSet(prev, {"PACKAGE"}) \ {"PACKAGE_OPTIONAL"}
      [] x = PackageTrustedOnly -> SlUnset(prev, package_trust_all)
      [] x = PackageTrustAll -> SlSet(prev, package_trust_all)
      [] x = DatabaseNever -> SlUnset(prev, {"DATABASE"})
      [] x = DatabaseOptional -> SlSet(prev, {"DATABASE", "DATABASE_OPTIONAL"})
      [] x = DatabaseRequired ->
             SlSet(prev, {"DATABASE"}) \ {"DATABASE_OPTIONAL"}
      [] x = DatabaseTrustedOnly -> SlUnset(prev, database_trust_all)
      [] x = DatabaseTrustAll -> SlSet(prev, database_trust_all)

\* a catch-all arm that lets the line pass
UnrecognizedIgnored(x, prev) == Some(prev)

\* line 101: the catch-all arm panics; None stands for the panic
Unrecognized(x, prev) == None

\* process_siglevel: the level after the line, or None for the panic
ProcessSiglevel(siglevel, prev) ==
    IF Trim(siglevel) \in Directives THEN Some(Directive(Trim(siglevel), prev))
    ELSE IF Trim(siglevel) = <<>> THEN Some(prev)
    ELSE Unrecognized(Trim(siglevel), prev)

RECURSIVE SplitFrom(_, _)
\* str::split('\n') from position start on
SplitFrom(str, start) ==
    IF \E p \in start..Len(str) : str[p] = LineFeed
    THEN <<SubSeq(str, start,
                  FirstPosition({p \in start..Len(str) :
                                    str[p] = LineFeed}) - 1)>>
            \o SplitFrom(str, FirstPosition({p \in start..Len(str) :
                                               str[p] = LineFeed}) + 1)
    ELSE <<SubSeq(str, start, Len(str))>>

\* a sequence without its last element when that one is the empty string
DropEmptyLast(pieces) ==
    IF pieces[Len(pieces)] = <<>> THEN SubSeq(pieces, 1, Len(pieces) - 1)
    ELSE pieces

\* str::split_terminator('\n')
SplitTerminator(str) == DropEmptyLast(SplitFrom(str, 1))

RECURSIVE FoldLines(_, _)
\* Iterator::fold with process_siglevel: None once a line has panicked
FoldLines(lines, prev) ==
    IF lines = <<>> THEN Some(prev)
    ELSE IF IsSome(ProcessSiglevel(Head(lines), prev))
    THEN FoldLines(Tail(lines), Unwrap(ProcessSiglevel(Head(lines), prev)))
    ELSE None

\* fold_siglevels
FoldSiglevels(siglevels, default) ==
    FoldLines(SplitTerminator(siglevels), default)

\* the state of one call of fold_siglevels
SigFold(siglevels, default, lines, prev) ==
    [siglevels |-> siglevels, default |-> default, lines |-> lines,
     prev |-> prev]

\* fold_siglevels is called: the string is split and the fold starts from
\* default
FoldStart ==
    /\ pc = "idle"
    /\ IsSome(sig_fold)
    /\ pc' = "folding"
    /\ sig_fold' = Some([Unwrap(sig_fold) EXCEPT
                           !.lines = SplitTerminator(
                                         Unwrap(sig_fold).siglevels),
                           !.prev = Unwrap(sig_fold).default])
    /\ UNCHANGED <<handle, pkg_filters, stack, deps_set, deps_pkgs, stderr,
                   rev_scan, reverse_deps, pkg_out, prev_run>>

\* one step of the fold: process_siglevel returns the next level
FoldLine ==
    /\ pc = "folding"
    /\ Unwrap(sig_fold).lines # <<>>
    /\ IsSome(ProcessSiglevel(Head(Unwrap(sig_fold).lines),
                              Unwrap(sig_fold).prev))
    /\ sig_fold' = Some([Unwrap(sig_fold) EXCEPT
                           !.prev = Unwrap(ProcessSiglevel(
                                        Head(Unwrap(sig_fold).lines), @)),
                           !.lines = Tail(@)])
    /\ UNCHANGED <<handle, pkg_filters, pc, stack, deps_set, deps_pkgs, stderr,
                   rev_scan, reverse_deps, pkg_out, prev_run>>

\* one step of the fold: process_siglevel panics, the fold is abandoned
FoldPanic ==
    /\ pc = "folding"
    /\ Unwrap(sig_fold).lines # <<>>
    /\ ~IsSome(ProcessSiglevel(Head(Unwrap(sig_fold).lines),
                               Unwrap(sig_fold).prev))
    /\ pc' = "panicked"
    /\ stderr' = Append(stderr, <<"failed to parse the signature level",
                                  Trim(Head(Unwrap(sig_fold).lines))>>)
    /\ UNCHANGED <<handle, pkg_filters, stack, deps_set, deps_pkgs, rev_scan,
                   reverse_deps, pkg_out, prev_run, sig_fold>>

\* the lines are exhausted: the level is returned
FoldEnd ==
    /\ pc = "folding"
    /\ Unwrap(sig_fold).lines = <<>>
    /\ pc' = "done"
    /\ UNCHANGED <<handle, pkg_filters, stack, deps_set, deps_pkgs, stderr,
                   rev_scan, reverse_deps, pkg_out, prev_run, sig_fold>>

\* the longest SigLevel output folded, in lines
MaxSigLines == 2

\* the coarse directive of pacman.conf, which pacman-conf never prints
Required == Chars("Required")

\* a line that is no directive
NonExistentSigLevel == Chars("NonExistentSigLevel")

\* the lines folded: the ten directives, one with whitespace around it, the
\* empty and a blank line, the coarse directive and an unknown one
SigLines ==
    Directives \cup {<<>>, Chars(" \t"), Chars("  PackageOptional\t"),
                     Required, NonExistentSigLevel}

RECURSIVE Join(_)
\* [..].join("\n")
Join(lines) ==
    IF lines = <<>> THEN <<>>
    ELSE IF Len(lines) = 1 THEN lines[1]
    ELSE lines[1] \o <<LineFeed>> \o Join(Tail(lines))

\* the SigLevel lines of the documentation of fold_siglevels
DocSiglevels ==
    Join(<<PackageRequired, PackageTrustedOnly, DatabaseOptional,
           DatabaseTrustedOnly>>)

\* a coarse directive between two fine-grained ones
CoarseSiglevels == Join(<<PackageRequired, Required, DatabaseNever>>)

\* lines with form feed, vertical tab and carriage return around a
\* directive, alone on a line, and inside an unknown line
FormFeedSiglevels ==
    {Chars("\fPackageNever"), Chars("\f"),
     Chars("\fPackageNever\r\n\f\n") \o <<11>> \o Chars("DatabaseNever "),
     Chars("Package\fNever")}

\* lines with the whitespace beyond ASCII: U+3000 alone, U+2003 and U+2028
\* before a directive, a directive between U+0085 and U+00A0 with a line of
\* U+1680, U+202F and U+205F after it; and with U+200B and U+180E, which
\* are no whitespace, before a directive
UnicodeSiglevels ==
    {<<12288>>, <<8195>> \o PackageNever, <<8232>> \o DatabaseOptional,
     <<133>> \o DatabaseOptional \o <<160, LineFeed, 5760, 8239, 8287>>,
     <<8203>> \o PackageNever, <<6158>> \o DatabaseNever}

\* the strings folded: up to MaxSigLines lines joined, with or without a
\* newline after the last, those of the documentation, and the coarse
\* directive with a line before and a line after it
SigTexts ==
    {Join(lines) \o tail : lines \in SeqsUpTo(SigLines, MaxSigLines),
                           tail \in {<<>>, <<LineFeed>>}}
        \cup {DocSiglevels, Chars("\n\n\n"), Chars("\n\t \n"), CoarseSiglevels}
        \cup FormFeedSiglevels
        \cup UnicodeSiglevels

\* the levels folded from
SigDefaults ==
    {{"USE_DEFAULT"}, {"DATABASE_OPTIONAL"}, {"PACKAGE_OPTIONAL"},
     SigFlags \ {"USE_DEFAULT"}}

InitSig ==
    /\ pc = "idle"
    /\ stack = <<>>
    /\ deps_set = <<>>
    /\ deps_pkgs = <<>>
    /\ stderr = <<>>
    /\ rev_scan = None
    /\ pkg_out = None
    /\ prev_run = None
    /\ handle = Handle(<<>>, <<>>, <<>>)
    /\ pkg_filters = Filters(FALSE, FALSE, FALSE, None, FALSE, FALSE)
    /\ reverse_deps = NoReverseDeps
    /\ \E siglevels \in SigTexts, default \in SigDefaults :
          sig_fold = Some(SigFold(siglevels, default, <<>>, default))

NextSig ==
    \/ FoldStart
    \/ FoldLine
    \/ FoldPanic
    \/ FoldEnd

SpecSig == InitSig /\ [][NextSig]_vars

----------------------------------------------------------------------------
(* what the claims read off a state *)

\* the names, in order, of the calls reported on stderr
CallNames ==
    LET calls == SelectSeq(stderr, LAMBDA line : line[1] = "recursing into")
    IN [i \in 1..Len(calls) |-> calls[i][3]]

\* the name=version keys of every package of every database
AllKeys ==
    {SatisfierKey(pkg.name, pkg.version) :
        pkg \in Range(handle.localdb.pkgs)
                \cup UNION {Range(handle.syncdbs[d].pkgs) :
                               d \in 1..Len(handle.syncdbs)}}

\* the queried databases hold a package of that name which declares exactly
\* these runtime dependencies, unversioned, in this order
Declares(name, names) ==
    /\ IsSome(FindInDatabases(RecurseDatabases, name))
    /\ Unwrap(FindInDatabases(RecurseDatabases, name)).depends
           = PlainDeps(names)

RecordKey(pkg_info) == SatisfierKey(pkg_info.name, pkg_info.version)

\* the keys of the records pushed, in order
PushedKeys(pkgs) == [i \in 1..Len(pkgs) |-> RecordKey(pkgs[i])]

\* the satisfier fields of the runtime dependencies of the pushed record of
\* that name
SatisfiersOf(pkgs, name) ==
    LET recs == SelectSeq(pkgs, LAMBDA r : r.name = name)
    IN [i \in 1..Len(recs[1].depends_on) |-> recs[1].depends_on[i].satisfier]

Reverse(s) == [i \in 1..Len(s) |-> s[Len(s) + 1 - i]]

Finished == pc = "done" /\ stack = <<>>

----------------------------------------------------------------------------
(* C1 *)

\* A depends on B and B on A, nothing else is followed
CycleUniverse ==
    /\ Declares("A", <<"B">>)
    /\ Declares("B", <<"A">>)
    /\ ~pkg_filters.optional

\* a step can be taken unless the run is done: the innermost call is at a
\* dependency of its list or ready to push, every outer call awaits its callee
CanStep ==
    \/ pc = "done"
    \/ pc = "idle" /\ IsSome(pkg_filters.recurse)
    \/ /\ pc = "recursing"
       /\ stack # <<>>
       /\ Mapping(Top) \/ Top.phase = "push"
       /\ \A i \in 1..(Len(stack) - 1) : IsSome(stack[i].pending)

\* C1: every call of recurse_dependencies inserts a key that was not in
\* deps_set (so no name=version key is recursed into twice), the calls are
\* bounded by the packages of the universe, the run is never stuck before it
\* is done, and on the cycle A -> B -> A it ends with A and B entered once each
C1_EachKeyEnteredOnce ==
    /\ Len(CallNames) = Len(deps_set)
    /\ Range(deps_set) \subseteq AllKeys
    /\ Len(stack) <= Len(deps_set)
    /\ CanStep
    /\ (Finished /\ CycleUniverse) =>
          /\ deps_set = <<"A=1.0", "B=1.0">>
          /\ CallNames = <<"A", "B">>

\* the cycle resolved: B's dependency on A was found visited and reported
C1_Witness ==
    /\ Finished
    /\ CycleUniverse
    /\ \E i \in 1..Len(stderr) :
          stderr[i] = <<"duplicated dependency", 2, "A=1.0", "A">>

----------------------------------------------------------------------------
(* C2 *)

\* the diamond A -> B, C; B -> D; C -> D, nothing else followed
DiamondUniverse ==
    /\ Declares("A", <<"B", "C">>)
    /\ Declares("B", <<"D">>)
    /\ Declares("C", <<"D">>)
    /\ Declares("D", <<>>)
    /\ ~pkg_filters.optional

\* C2: no record is pushed twice; every satisfier key recorded on a pushed
\* specification is a visited key; and on the diamond, without summary, D is
\* pushed once and both B's and C's specification carry D's key
C2_DiamondSharesSatisfier ==
    /\ Distinct(PushedKeys(deps_pkgs))
    /\ \A i \in 1..Len(deps_pkgs) :
          \A j \in 1..Len(deps_pkgs[i].depends_on) :
             LET sat == deps_pkgs[i].depends_on[j].satisfier
             IN IsSome(sat) => IndexSetContains(deps_set, Unwrap(sat))
    /\ (Finished /\ DiamondUniverse /\ ~pkg_filters.summary) =>
          /\ Cardinality({i \in 1..Len(deps_pkgs) : deps_pkgs[i].name = "D"}) = 1
          /\ SatisfiersOf(deps_pkgs, "B") = <<Some("D=1.0")>>
          /\ SatisfiersOf(deps_pkgs, "C") = <<Some("D=1.0")>>

\* the diamond resolved: D was reached a second time, through C, and
\* reported as a duplicate instead of being recursed into
C2_Witness ==
    /\ Finished
    /\ DiamondUniverse
    /\ PushedKeys(deps_pkgs) = <<"D=1.0", "B=1.0", "C=1.0", "A=1.0">>
    /\ \E i \in 1..Len(stderr) :
          stderr[i] = <<"duplicated dependency", 2, "D=1.0", "D">>

----------------------------------------------------------------------------
(* C3 *)

\* this run repeats, with summary flipped, the run kept in prev_run
SummaryRerun == IsSome(prev_run) /\ Unwrap(prev_run).rerun = "summary"

\* C3: with summary set nothing is ever pushed, and the run ends with the
\* same visited keys as the run of the same query with summary unset
C3_SummarySameClosure ==
    /\ pkg_filters.summary => deps_pkgs = <<>>
    /\ (Finished /\ SummaryRerun) =>
          /\ Range(deps_set) = Range(Unwrap(prev_run).deps_set)
          /\ Unwrap(prev_run).pkg_filters.summary # pkg_filters.summary

\* a summary run done that visited three keys or more, after a run without
\* summary that pushed as many records
C3_Witness ==
    /\ Finished
    /\ SummaryRerun
    /\ pkg_filters.summary
    /\ Len(deps_set) >= 3
    /\ Len(Unwrap(prev_run).deps_pkgs) = Len(deps_set)

----------------------------------------------------------------------------
(* C4 *)

\* this run repeats the run kept in prev_run on the universe without the
\* unsatisfiable specifications
StrippedRerun == IsSome(prev_run) /\ Unwrap(prev_run).rerun = "stripped"

\* the DepInfos of a processed list whose specification has a satisfier
SatisfiableInfos(h, f, infos) ==
    SelectSeq(infos, LAMBDA info : Satisfiable(h, f, info.dep_string))

\* what a pushed record says about the closure: its key and its two lists
ClosureView(pkgs) ==
    [i \in 1..Len(pkgs) |->
        <<RecordKey(pkgs[i]), pkgs[i].depends_on, pkgs[i].optional_deps>>]

\* the same, the unsatisfiable specifications left out of the lists the
\* filters make the closure follow
StrippedView(h, f, pkgs) ==
    [i \in 1..Len(pkgs) |->
        <<RecordKey(pkgs[i]),
          SatisfiableInfos(h, f, pkgs[i].depends_on),
          IF f.optional THEN SatisfiableInfos(h, f, pkgs[i].optional_deps)
          ELSE pkgs[i].optional_deps>>]

\* C4: a pushed runtime specification has its satisfier unset exactly when
\* find_satisfier has no package for it, and the run on the universe without
\* the unsatisfiable specifications ends with the same visited keys in the
\* same order and the same records, specification by specification
C4_UnsatisfiableLeavesSiblings ==
    /\ \A i \in 1..Len(deps_pkgs) :
          \A j \in 1..Len(deps_pkgs[i].depends_on) :
             LET info == deps_pkgs[i].depends_on[j]
             IN IsSome(info.satisfier)
                    <=> Satisfiable(handle, pkg_filters, info.dep_string)
    /\ (Finished /\ StrippedRerun) =>
          /\ deps_set = Unwrap(prev_run).deps_set
          /\ ClosureView(deps_pkgs) =
                StrippedView(Unwrap(prev_run).handle, pkg_filters,
                             Unwrap(prev_run).deps_pkgs)

\* a run done on a root that declares an unsatisfiable specification before
\* a satisfiable one: the first kept unset, the second resolved and recursed
C4_Witness ==
    /\ Finished
    /\ prev_run = None
    /\ Len(deps_pkgs) >= 2
    /\ LET root == deps_pkgs[Len(deps_pkgs)]
       IN /\ Len(root.depends_on) = 2
          /\ root.depends_on[1].satisfier = None
          /\ IsSome(root.depends_on[2].satisfier)
          /\ IndexSetContains(deps_set, Unwrap(root.depends_on[2].satisfier))

----------------------------------------------------------------------------
(* C8 *)

\* A depends on B and B on nothing
ChainUniverse ==
    /\ Declares("A", <<"B">>)
    /\ Declares("B", <<>>)
    /\ ~pkg_filters.optional
    /\ ~pkg_filters.summary

\* C8 as claimed: the pushed records, reversed, read B then A
C8_ReversedOutputIsBA ==
    (Finished /\ ChainUniverse) =>
        /\ [i \in 1..Len(deps_set) |-> SubSeq(deps_set[i], 1, 1)] = <<"A", "B">>
        /\ Reverse([i \in 1..Len(deps_pkgs) |-> deps_pkgs[i].name])
              = <<"B", "A">>

\* C8, amended: the visited keys are A then B; the records are pushed B then
\* A, so it is the list as pushed, and the visited keys reversed, that read
\* B then A
C8_PushedOutputIsBA ==
    (Finished /\ ChainUniverse) =>
        /\ [i \in 1..Len(deps_set) |-> SubSeq(deps_set[i], 1, 1)] = <<"A", "B">>
        /\ [i \in 1..Len(deps_pkgs) |-> deps_pkgs[i].name] = <<"B", "A">>
        /\ Reverse([i \in 1..Len(deps_set) |-> SubSeq(deps_set[i], 1, 1)])
              = <<"B", "A">>

\* the chain resolved without summary: two records pushed
C8_Witness ==
    /\ Finished
    /\ ChainUniverse
    /\ Len(deps_pkgs) = 2

----------------------------------------------------------------------------
(* C5 *)

\* the names of the sync packages that declare, in the list of that kind, a
\* dependency whose name is target
Dependents(kind, target) ==
    {pkg.name : pkg \in {q \in UNION {Range(handle.syncdbs[d].pkgs) :
                                         d \in 1..Len(handle.syncdbs)} :
                    \E i \in 1..Len(GetDependencies(kind, q)) :
                        GetDependencies(kind, q)[i].name = target}}

\* every name the universe knows: of a package, or of a declared dependency
KnownNames ==
    {pkg.name : pkg \in AllPackages}
        \cup UNION {{GetDependencies(kind, pkg)[i].name :
                        i \in 1..Len(GetDependencies(kind, pkg))} :
                    kind \in Kinds, pkg \in AllPackages}

\* C5: once the index is built, for every kind and every name D the set
\* stored under D (empty when D is no key) is the set of the names of the
\* sync packages that declare a dependency of that kind named D, whatever
\* the version constraint; the maps are those get_reverse_deps_map returns
C5_IndexIsInverse ==
    pc \in {"indexed", "looked up"} =>
        /\ \A kind \in Kinds : \A target \in KnownNames :
              (IF target \in DOMAIN reverse_deps[kind]
               THEN reverse_deps[kind][target] ELSE {})
                  = Dependents(kind, target)
        /\ reverse_deps = ReverseDepsDatabaseFrom(handle)

\* an index built in which B is required by both A and B, through a
\* versioned and an unversioned specification
C5_Witness ==
    /\ pc = "indexed"
    /\ "B" \in DOMAIN reverse_deps["required_by"]
    /\ reverse_deps["required_by"]["B"] = {"A", "B"}
    /\ \E i \in 1..Len(handle.syncdbs[1].pkgs[1].depends) :
          handle.syncdbs[1].pkgs[1].depends[i].depmod = "Ge"

----------------------------------------------------------------------------
(* C10 *)

\* the names that are a dependency target of that kind of a sync package
TargetsOf(kind) == {t \in KnownNames : Dependents(kind, t) # {}}

\* the map of that kind as far as it is built
MapsInProgress ==
    {reverse_deps[kind] : kind \in Kinds}
        \cup (IF IsSome(rev_scan) THEN {Unwrap(rev_scan).map} ELSE {})

\* C10: no map ever stores an empty set; once built, the keys of each map
\* are exactly the dependency targets of its kind; and add_reverse_deps
\* gives a package whose name is no key the empty set for that kind, and
\* the stored set otherwise
C10_KeysAreTargets ==
    /\ \A map \in MapsInProgress : \A key \in DOMAIN map : map[key] # {}
    /\ pc \in {"indexed", "looked up"} =>
          \A kind \in Kinds : DOMAIN reverse_deps[kind] = TargetsOf(kind)
    /\ pc = "looked up" =>
          \A kind \in Kinds :
             Unwrap(Unwrap(pkg_out).result)[kind] =
                IF Unwrap(pkg_out).pkg.name \in DOMAIN reverse_deps[kind]
                THEN reverse_deps[kind][Unwrap(pkg_out).pkg.name]
                ELSE {}

\* the installed package D looked up: no sync package depends on it, so it
\* is no key of required_by although other names are
C10_Witness ==
    /\ pc = "looked up"
    /\ Unwrap(pkg_out).pkg.name = "D"
    /\ "D" \notin DOMAIN reverse_deps["required_by"]
    /\ DOMAIN reverse_deps["required_by"] = {"A", "B", "C", Missing}
    /\ Unwrap(Unwrap(pkg_out).result).required_by = {}

----------------------------------------------------------------------------
(* C6, C7 *)

\* the record reconciliation returned for the package queried
Reconciled == Unwrap(Unwrap(pkg_out).pkg_info)

\* a package was queried, was not left out, and plain is unset
ReconciledQuery ==
    /\ pc = "generated"
    /\ IsSome(Unwrap(pkg_out).pkg_info)
    /\ ~pkg_filters.plain

\* the local and the sync package of the query: the one queried, and the
\* package of its name that find_in_databases gives on the other side
LocalSide ==
    IF pkg_filters.sync
    THEN FindInDatabases(<<handle.localdb>>, Unwrap(pkg_out).pkg.name)
    ELSE Some(Unwrap(pkg_out).pkg)

SyncSide ==
    IF pkg_filters.sync
    THEN Some(Unwrap(pkg_out).pkg)
    ELSE FindInDatabases(handle.syncdbs, Unwrap(pkg_out).pkg.name)

BothSides == ReconciledQuery /\ IsSome(LocalSide) /\ IsSome(SyncSide)

LocalRecord == PackageInfoFrom(Unwrap(LocalSide))

SyncRecord == PackageInfoFrom(Unwrap(SyncSide))

\* packager and version both agree
SidesAgree ==
    /\ LocalRecord.packager = SyncRecord.packager
    /\ LocalRecord.version = SyncRecord.version

\* the fields add_local_info overlays
InstallFields == {"install_date", "install_reason", "install_script"}

\* the local record is the base, unchanged but for the companion, which is
\* the sync record
LocalBase ==
    /\ \A field \in DOMAIN Reconciled \ {"sync_with"} :
          Reconciled[field] = LocalRecord[field]
    /\ Reconciled.sync_with = Some(SyncRecord)

\* the sync record is the base, with the install fields of the local record
\* and the local record as companion
SyncBaseWithInstall ==
    /\ \A field \in InstallFields : Reconciled[field] = LocalRecord[field]
    /\ \A field \in DOMAIN Reconciled \ (InstallFields \cup {"sync_with"}) :
          Reconciled[field] = SyncRecord[field]
    /\ Reconciled.sync_with = Some(LocalRecord)

\* C6 as stated: both sides exist and differ in packager or version, and the
\* local record is the base with the sync record as companion, whether the
\* sync flag is set or not
C6_LocalBaseEitherSide ==
    (BothSides /\ ~SidesAgree) => LocalBase

\* C6: both sides exist and differ in packager or version; with the sync
\* flag unset the local record is the base, untouched, with the sync record
\* as companion; with the sync flag set the sync record is the base, with
\* the install fields of the local record and the local record as companion
C6_LocalBaseFromLocalQuery ==
    (BothSides /\ ~SidesAgree) =>
        IF pkg_filters.sync THEN SyncBaseWithInstall ELSE LocalBase

\* a local query of an A whose version is not the one of core, the
\* packagers being the same, with a script only the local side has
C6_Witness ==
    /\ BothSides /\ ~SidesAgree
    /\ ~pkg_filters.sync
    /\ LocalRecord.packager = SyncRecord.packager
    /\ LocalRecord.md5_sum # SyncRecord.md5_sum
    /\ LocalBase

\* C7: both sides exist and agree on packager and version: the install
\* date, reason and script flag are the local ones, every other field is
\* the sync one, and the companion is the whole local record
C7_SyncBaseWhenSame ==
    (BothSides /\ SidesAgree) => SyncBaseWithInstall

\* a local query of an A installed as a dependency that core has in the
\* same version from the same packager
C7_Witness ==
    /\ BothSides /\ SidesAgree
    /\ ~pkg_filters.sync
    /\ LocalRecord.install_reason = "Depend"
    /\ SyncRecord.install_reason = "Explicit"
    /\ LocalRecord.install_script # SyncRecord.install_script
    /\ IsSome(Reconciled.md5_sum)
    /\ Reconciled.install_reason = "Depend"

----------------------------------------------------------------------------
(* C9 *)

\* the four sets add_reverse_deps fills
ReverseFields == Kinds

\* a package was queried with plain set and was not left out
PlainQuery ==
    /\ pc = "generated"
    /\ pkg_filters.plain
    /\ IsSome(Unwrap(pkg_out).result)

\* C9 as stated: with plain set, every field of the record returned is the
\* one of the projection of the package queried
C9_PlainIsProjection ==
    PlainQuery =>
        Unwrap(Unwrap(pkg_out).result) = PackageInfoFrom(Unwrap(pkg_out).pkg)

\* C9: with plain set, the companion is absent and every field other than
\* the four reverse-dependency sets is the one of the projection of the
\* package queried; the four sets are those of the index under its name
C9_PlainIsProjectionButReverseDeps ==
    PlainQuery =>
        /\ Unwrap(Unwrap(pkg_out).result).sync_with = None
        /\ \A field \in DOMAIN Unwrap(Unwrap(pkg_out).result) \ ReverseFields :
              Unwrap(Unwrap(pkg_out).result)[field]
                  = PackageInfoFrom(Unwrap(pkg_out).pkg)[field]
        /\ \A kind \in ReverseFields :
              Unwrap(Unwrap(pkg_out).result)[kind]
                  = Dependents(kind, Unwrap(pkg_out).pkg.name)

\* a plain local query of an A that core has too, from another packager,
\* and that B of core requires
C9_Witness ==
    /\ PlainQuery
    /\ ~pkg_filters.sync
    /\ IsLocal(Unwrap(pkg_out).pkg)
    /\ IsSome(FindInDatabases(handle.syncdbs, "A"))
    /\ Unwrap(pkg_out).pkg.name = "A"
    /\ Unwrap(Unwrap(pkg_out).result).required_by = {"B"}

----------------------------------------------------------------------------
(* C11 *)

\* the databases, in iteration order, that hold a package of that name
Holders(dbs, name) ==
    {d \in 1..Len(dbs) : \E i \in 1..Len(dbs[d].pkgs) : dbs[d].pkgs[i].name = name}

\* the databases on the other side of the query
ComplementaryDatabases ==
    IF pkg_filters.sync THEN <<handle.localdb>> ELSE handle.syncdbs

\* C11: find_in_databases gives the error exactly when no database of the
\* list holds the name, and the package of the first database that holds it
\* otherwise; and a query whose complementary databases do not hold the name
\* returns Ok with the record of the package as projected, no companion, the
\* miss being printed and nothing else
C11_MissLeavesRecord ==
    /\ \A dbs \in {<<handle.localdb>>, handle.syncdbs} :
          \A name \in {"A", "B", Missing} :
             IF Holders(dbs, name) = {}
             THEN FindInDatabases(dbs, name) = None
             ELSE /\ IsSome(FindInDatabases(dbs, name))
                  /\ Unwrap(FindInDatabases(dbs, name)).name = name
                  /\ Unwrap(FindInDatabases(dbs, name)).db
                        = dbs[FirstPosition(Holders(dbs, name))].name
    /\ (/\ ReconciledQuery
        /\ Holders(ComplementaryDatabases, Unwrap(pkg_out).pkg.name) = {}) =>
          /\ Reconciled = PackageInfoFrom(Unwrap(pkg_out).pkg)
          /\ Reconciled.sync_with = None
          /\ IsSome(Unwrap(pkg_out).result)
          /\ Unwrap(Unwrap(pkg_out).result).sync_with = None
          /\ stderr = <<<<"not found in the sync databases",
                          Unwrap(pkg_out).pkg.name>>>>

\* a non-plain local query of an A that neither core nor extra holds
C11_Witness ==
    /\ ReconciledQuery
    /\ ~pkg_filters.sync
    /\ Unwrap(pkg_out).pkg.name = "A"
    /\ Holders(handle.syncdbs, "A") = {}
    /\ Len(stderr) = 1
    /\ Reconciled.repository = Some("local")

\* the first sync database does not hold A and the second does, and the
\* local query of A is given the A of the second
C11_SecondDatabaseWitness ==
    /\ ReconciledQuery
    /\ ~pkg_filters.sync
    /\ Unwrap(pkg_out).pkg.name = "A"
    /\ Holders(handle.syncdbs, "A") = {2}
    /\ Unwrap(pkg_out).pkg.version # "3.0"
    /\ Unwrap(Reconciled.sync_with).repository = Some("extra")

----------------------------------------------------------------------------
(* C12 *)

\* C12: generate_pkg_info returns the error exactly when recurse is unset,
\* all is unset and the install reason of the package is not Explicit; with
\* recurse set or all set it returns a record for every package
C12_NotExplicitExactly ==
    pc \in {"generated", "done"} =>
        /\ ~IsSome(Unwrap(pkg_out).result)
              <=> /\ pkg_filters.recurse = None
                  /\ ~pkg_filters.all
                  /\ Unwrap(pkg_out).pkg.reason = "Depend"
        /\ ~IsSome(Unwrap(pkg_out).result) <=> ~IsSome(Unwrap(pkg_out).pkg_info)
        /\ (pkg_filters.recurse # None \/ pkg_filters.all)
              => IsSome(Unwrap(pkg_out).result)

\* an A installed as a dependency, queried with neither all nor recurse
C12_Witness ==
    /\ pc = "generated"
    /\ Unwrap(pkg_out).pkg.reason = "Depend"
    /\ ~pkg_filters.all
    /\ pkg_filters.recurse = None
    /\ Unwrap(pkg_out).result = None

\* an A installed as a dependency, queried with recurse set and all unset
C12_RecurseWitness ==
    /\ pc = "generated"
    /\ Unwrap(pkg_out).pkg.reason = "Depend"
    /\ ~pkg_filters.all
    /\ pkg_filters.recurse = Some("A")
    /\ IsSome(Unwrap(pkg_out).result)

----------------------------------------------------------------------------
(* C13, C14 *)

\* the call of fold_siglevels in progress or over
Fold == Unwrap(sig_fold)

\* the lines of the string folded, and those of them already processed
AllLines == SplitTerminator(Fold.siglevels)

ProcessedLines == SubSeq(AllLines, 1, Len(AllLines) - Len(Fold.lines))

\* a line of nothing but whitespace
Blank(line) == \A p \in 1..Len(line) : line[p] \in Whitespace

\* the lines that are not blank
NonBlank(lines) == SelectSeq(lines, LAMBDA line : ~Blank(line))

\* the lines are the newline-terminated lines of the string: none holds a
\* newline, and joined again they give the string, up to the newline after
\* the last
LinesOf(lines, str) ==
    /\ str \in {Join(lines), Join(lines) \o <<LineFeed>>}
    /\ \A k \in 1..Len(lines) : \A p \in 1..Len(lines[k]) :
          lines[k][p] # LineFeed

\* the level returned for these lines from default
FoldedRight(lines, default, level) ==
    /\ Some(level) = FoldLines(lines, default)
    /\ Some(level) = FoldLines(NonBlank(lines), default)
    /\ NonBlank(lines) = <<>> => level = default
    /\ (lines = SplitTerminator(DocSiglevels) /\ default = {"USE_DEFAULT"})
          => level = {"PACKAGE", "DATABASE", "DATABASE_OPTIONAL"}

\* C13: the lines folded are the newline-terminated lines of the string, in
\* order; at every step the level is process_siglevel applied to the lines
\* processed so far, from the first on, starting from default; the level
\* returned is the one of the pure fold and the one of the fold of the lines
\* that are not blank, hence default when every line is blank; the lines of
\* the documentation folded from USE_DEFAULT give PACKAGE, DATABASE and
\* DATABASE_OPTIONAL, USE_DEFAULT cleared; a line of vertical tab, U+0085,
\* U+00A0, U+1680, U+3000 and form feed is blank, and a directive between
\* U+2003 and U+2028 is the directive
C13_FoldIsLineByLine ==
    /\ pc \in {"folding", "panicked", "done"} =>
          LET lines == AllLines
          IN /\ LinesOf(lines, Fold.siglevels)
             /\ Some(Fold.prev) =
                   FoldLines(SubSeq(lines, 1, Len(lines) - Len(Fold.lines)),
                             Fold.default)
             /\ pc = "done" =>
                   /\ Fold.lines = <<>>
                   /\ Some(Fold.prev)
                         = FoldSiglevels(Fold.siglevels, Fold.default)
                   /\ FoldedRight(lines, Fold.default, Fold.prev)
    /\ ProcessSiglevel(<<LineFeed, 9, 32, LineFeed>>, {"PACKAGE_OPTIONAL"})
          = Some({"PACKAGE_OPTIONAL"})
    /\ ProcessSiglevel(PackageRequired, {"USE_DEFAULT"}) = Some({"PACKAGE"})
    /\ ProcessSiglevel(<<11, 133, 160, 5760, 12288, 12>>, {"DATABASE_OPTIONAL"})
          = Some({"DATABASE_OPTIONAL"})
    /\ ProcessSiglevel(<<8195>> \o DatabaseOptional \o <<8232>>, {"USE_DEFAULT"})
          = Some({"DATABASE", "DATABASE_OPTIONAL"})

\* the lines of the documentation folded from USE_DEFAULT
C13_Witness ==
    /\ pc = "done"
    /\ Fold.siglevels = DocSiglevels
    /\ Fold.default = {"USE_DEFAULT"}
    /\ Len(AllLines) = 4
    /\ Fold.prev = {"PACKAGE", "DATABASE", "DATABASE_OPTIONAL"}

\* three empty lines folded from DATABASE_OPTIONAL
C13_EmptyLinesWitness ==
    /\ pc = "done"
    /\ Fold.siglevels = <<LineFeed, LineFeed, LineFeed>>
    /\ Len(AllLines) = 3
    /\ Fold.prev = {"DATABASE_OPTIONAL"}

\* the ten directives pacman-conf prints
FineGrained ==
    {Chars(directive) : directive \in
        {"PackageNever", "PackageOptional", "PackageRequired",
         "PackageTrustedOnly", "PackageTrustAll", "DatabaseNever",
         "DatabaseOptional", "DatabaseRequired", "DatabaseTrustedOnly",
         "DatabaseTrustAll"}}

\* a line process_siglevel accepts: blank, or one of the directives given
\* with whitespace around it or none
Accepted(line, directives) == Blank(line) \/ Trim(line) \in directives

\* process_siglevel returns for exactly the lines accepted
PanicsUnlessAccepted(lines, prev, directives) ==
    \A k \in 1..Len(lines) :
        IsSome(ProcessSiglevel(lines[k], prev)) <=> Accepted(lines[k], directives)

\* C14: process_siglevel panics exactly on the lines that are neither blank
\* nor one of the ten directives, the coarse Required among them; the fold
\* never gets past such a line, so it returns only when the string has none,
\* and it panics at the first one whatever the lines before and after it
C14_PanicOnUnknownLine ==
    /\ pc \in {"folding", "panicked", "done"} =>
          LET lines == AllLines
              fine == FineGrained
          IN /\ \A k \in 1..(Len(lines) - Len(Fold.lines)) :
                    Accepted(lines[k], fine)
             /\ PanicsUnlessAccepted(lines, Fold.prev, fine)
             /\ PanicsUnlessAccepted(lines, Fold.default, fine)
             /\ pc = "done" => \A k \in 1..Len(lines) : Accepted(lines[k], fine)
             /\ pc = "panicked" =>
                   /\ Fold.lines # <<>>
                   /\ ~Accepted(Head(Fold.lines), fine)
                   /\ stderr = <<<<"failed to parse the signature level",
                                   Trim(Head(Fold.lines))>>>>
    /\ ProcessSiglevel(Required, {"USE_DEFAULT"}) = None
    /\ ProcessSiglevel(NonExistentSigLevel, {"USE_DEFAULT"}) = None
    /\ ProcessSiglevel(<<8203>> \o PackageNever, {"USE_DEFAULT"}) = None

\* the coarse Required between two directives: the fold has processed the
\* first and panics, the third line left unread
C14_Witness ==
    /\ pc = "panicked"
    /\ AllLines = <<PackageRequired, Required, DatabaseNever>>
    /\ Fold.lines = <<Required, DatabaseNever>>
    /\ Fold.prev = {"PACKAGE"}

----------------------------------------------------------------------------
(* C15 *)

\* the position of an element in a sequence without repetitions
PositionIn(seq, elem) == FirstPosition({i \in 1..Len(seq) : seq[i] = elem})

\* the satisfier keys recorded on the two lists of a record
SatisfierKeys(pkg_info) ==
    {Unwrap(pkg_info.depends_on[i].satisfier) :
        i \in {n \in 1..Len(pkg_info.depends_on) :
                  IsSome(pkg_info.depends_on[n].satisfier)}}
    \cup {Unwrap(pkg_info.optional_deps[i].satisfier) :
            i \in {n \in 1..Len(pkg_info.optional_deps) :
                      IsSome(pkg_info.optional_deps[n].satisfier)}}

\* the record at position j was pushed with its key and its satisfier keys
\* visited, and after the record of every satisfier visited later than itself
PushedAfterItsDependencies(j) ==
    /\ RecordKey(deps_pkgs[j]) \in Range(deps_set)
    /\ SatisfierKeys(deps_pkgs[j]) \subseteq Range(deps_set)
    /\ \A key \in SatisfierKeys(deps_pkgs[j]) :
          PositionIn(deps_set, key)
                > PositionIn(deps_set, RecordKey(deps_pkgs[j]))
             => \E i \in 1..(j - 1) : RecordKey(deps_pkgs[i]) = key

\* C15: whenever a record is in the output list, its own key and the
\* satisfier key of every specification of its lists that has one are in
\* deps_set; and every satisfier that entered deps_set after the record's own
\* key (it was discovered while the record was being resolved) has its record
\* earlier in the list
C15_PushedAfterDependencies ==
    \A j \in 1..Len(deps_pkgs) : PushedAfterItsDependencies(j)

\* a finished run of three records or more in which the record of the root,
\* pushed last, has a dependency discovered through it and some record has a
\* satisfier visited before itself
C15_Witness ==
    /\ Finished
    /\ Len(deps_pkgs) >= 3
    /\ RecordKey(deps_pkgs[Len(deps_pkgs)]) = deps_set[1]
    /\ SatisfierKeys(deps_pkgs[Len(deps_pkgs)]) # {}
    /\ \E j \in 1..Len(deps_pkgs) : \E key \in SatisfierKeys(deps_pkgs[j]) :
          PositionIn(deps_set, key)
              < PositionIn(deps_set, RecordKey(deps_pkgs[j]))

----------------------------------------------------------------------------
(* C16 *)

\* the resolved dependencies of the records pushed: dependent, satisfier
ResolvedEdges ==
    UNION {{<<RecordKey(deps_pkgs[j]), key>> :
               key \in SatisfierKeys(deps_pkgs[j])} : j \in 1..Len(deps_pkgs)}

RECURSIVE ReachedFrom(_, _, _)
\* the keys reached from those of frontier in n steps or fewer
ReachedFrom(edges, frontier, n) ==
    IF n = 0 THEN frontier
    ELSE ReachedFrom(edges,
                     frontier \cup {e[2] : e \in {d \in edges : d[1] \in frontier}},
                     n - 1)

\* no key depends on itself, directly or not
Acyclic(edges, keys) ==
    \A key \in keys :
        key \notin ReachedFrom(edges, {e[2] : e \in {d \in edges : d[1] = key}},
                               Cardinality(keys))

\* the calls reported on stderr, in order: call number i entered deps_set[i]
Calls == SelectSeq(stderr, LAMBDA line : line[1] = "recursing into")

\* the call that made call number i: the last one before it one level up
Caller(i) ==
    FirstPosition({j \in 1..(i - 1) :
        /\ Calls[j][2] = Calls[i][2] - 1
        /\ \A k \in (j + 1)..(i - 1) : Calls[k][2] # Calls[i][2] - 1})

RECURSIVE Callers(_)
\* the calls on the stack when call number i was made
Callers(i) ==
    IF Calls[i][2] = 0 THEN {} ELSE {Caller(i)} \cup Callers(Caller(i))

\* the satisfier was discovered while the dependent was being resolved
DiscoveredThrough(dependent, satisfier) ==
    PositionIn(deps_set, dependent) \in Callers(PositionIn(deps_set, satisfier))

\* a run over an acyclic universe is over, its records pushed
AcyclicRunOver ==
    /\ Finished
    /\ ~pkg_filters.summary
    /\ deps_set # <<>>
    /\ Acyclic(ResolvedEdges, Range(deps_set))

\* C16 as stated: in the visited set listed in reverse insertion order every
\* satisfier of a resolved specification comes before its dependent
C16_ReverseVisitedIsDependenciesFirst ==
    AcyclicRunOver =>
        \A e \in ResolvedEdges :
            PositionIn(Reverse(deps_set), e[2])
                < PositionIn(Reverse(deps_set), e[1])

\* C16: after a run over an acyclic universe, in the visited set listed in
\* reverse insertion order a satisfier comes before its dependent exactly
\* when it was first visited while the call of that dependent was in
\* progress, directly or through nested calls; otherwise it was in the
\* visited set before the dependent was entered, and comes after it; in the
\* output list of records every satisfier comes before its dependent
C16_ReverseVisitedIsDiscoveryFirst ==
    AcyclicRunOver =>
        \A e \in ResolvedEdges :
            /\ PositionIn(Reverse(deps_set), e[2])
                  < PositionIn(Reverse(deps_set), e[1])
               <=> DiscoveredThrough(e[1], e[2])
            /\ PositionIn(Reverse(deps_set), e[1])
                  < PositionIn(Reverse(deps_set), e[2])
               <=> ~DiscoveredThrough(e[1], e[2])
            /\ ~DiscoveredThrough(e[1], e[2])
                  <=> PositionIn(deps_set, e[2]) < PositionIn(deps_set, e[1])
            /\ PositionIn(PushedKeys(deps_pkgs), e[2])
                  < PositionIn(PushedKeys(deps_pkgs), e[1])

\* the diamond resolved: D, first visited during the call of B, is listed
\* before B and A, and after C, which was entered with D already visited
C16_Witness ==
    /\ AcyclicRunOver
    /\ DiamondUniverse
    /\ Reverse(deps_set) = <<"C=1.0", "D=1.0", "B=1.0", "A=1.0">>
    /\ <<"C=1.0", "D=1.0">> \in ResolvedEdges
    /\ DiscoveredThrough("B=1.0", "D=1.0")
    /\ DiscoveredThrough("A=1.0", "D=1.0")
    /\ ~DiscoveredThrough("C=1.0", "D=1.0")

\* A requires B and D, B requires D: A finds D already visited, yet D was
\* first visited while the call of A was in progress, and is listed before A
C16_DuplicateOfCallerWitness ==
    /\ AcyclicRunOver
    /\ Reverse(deps_set) = <<"D=1.0", "B=1.0", "A=1.0">>
    /\ {<<"A=1.0", "B=1.0">>, <<"A=1.0", "D=1.0">>, <<"B=1.0", "D=1.0">>}
          = ResolvedEdges
    /\ DiscoveredThrough("A=1.0", "D=1.0")
    /\ \E i \in 1..Len(stderr) :
          stderr[i] = <<"duplicated dependency", 1, "D=1.0", "D">>

----------------------------------------------------------------------------
(* C17 *)

\* the packages the specifications of a list resolve to
SatisfiersOfList(deps) ==
    {Unwrap(FindSatisfier(handle, RecurseDatabases, DepToString(deps[i]))) :
        i \in {n \in 1..Len(deps) :
                  Satisfiable(handle, pkg_filters, DepToString(deps[n]))}}

RECURSIVE RuntimeClosure(_, _)
\* the packages reached from pkgs through runtime dependencies alone, in n
\* steps or fewer
RuntimeClosure(pkgs, n) ==
    IF n = 0 THEN pkgs
    ELSE RuntimeClosure(
             pkgs \cup UNION {SatisfiersOfList(pkg.depends) : pkg \in pkgs},
             n - 1)

\* the keys of the packages the root reaches through runtime dependencies
RuntimeKeys ==
    {SatisfierKey(pkg.name, pkg.version) :
        pkg \in RuntimeClosure(
                    {Unwrap(FindInDatabases(RecurseDatabases,
                                            Unwrap(pkg_filters.recurse)))},
                    Cardinality(AllPackages))}

\* the optional dependencies of the record are as its package declares them,
\* none with a satisfier
OptionalAsDeclared(pkg_info) ==
    /\ \A i \in 1..Len(pkg_info.optional_deps) :
          pkg_info.optional_deps[i].satisfier = None
    /\ \E pkg \in AllPackages :
          /\ Some(pkg.db) = pkg_info.repository
          /\ pkg.name = pkg_info.name
          /\ pkg_info.optional_deps = PacListFrom(pkg.optdepends)

\* every specification of the list has been given its satisfier, if it has one
ListResolved(infos) ==
    \A i \in 1..Len(infos) :
        IsSome(infos[i].satisfier)
            <=> Satisfiable(handle, pkg_filters, infos[i].dep_string)

\* C17: with optional unset no call maps optional_deps, every record keeps
\* its optional dependencies as declared and without satisfier, and the run
\* ends with exactly the keys reached through runtime dependencies in
\* deps_set and in the output list; with optional set a call maps
\* optional_deps only once depends_on is resolved to its end; the runtime
\* dependencies of every record pushed are resolved either way
C17_OptionalOnlyWhenSet ==
    /\ \A k \in 1..Len(stack) :
          /\ stack[k].phase = "optional" =>
                /\ pkg_filters.optional
                /\ ListResolved(stack[k].pkg_info.depends_on)
          /\ stack[k].phase = "depends" =>
                OptionalAsDeclared(stack[k].pkg_info)
          /\ ~pkg_filters.optional => OptionalAsDeclared(stack[k].pkg_info)
    /\ \A j \in 1..Len(deps_pkgs) :
          /\ ListResolved(deps_pkgs[j].depends_on)
          /\ IF pkg_filters.optional
             THEN ListResolved(deps_pkgs[j].optional_deps)
             ELSE OptionalAsDeclared(deps_pkgs[j])
    /\ (Finished /\ ~pkg_filters.optional /\ deps_set # <<>>) =>
          /\ Range(deps_set) = RuntimeKeys
          /\ ~pkg_filters.summary
                => Range(PushedKeys(deps_pkgs)) = RuntimeKeys

\* optional unset: the root declares an optional dependency on D, which the
\* databases hold and no runtime dependency reaches; D is not visited
C17_Witness ==
    /\ Finished
    /\ ~pkg_filters.optional
    /\ ~pkg_filters.summary
    /\ Len(deps_pkgs) >= 2
    /\ Len(deps_pkgs[Len(deps_pkgs)].optional_deps) = 1
    /\ deps_pkgs[Len(deps_pkgs)].optional_deps[1].name = "D"
    /\ Satisfiable(handle, pkg_filters, "D")
    /\ "D=1.0" \notin Range(deps_set)

\* optional set: the same root, and D visited after the runtime dependency
C17_OptionalSetWitness ==
    /\ Finished
    /\ pkg_filters.optional
    /\ ~pkg_filters.summary
    /\ Len(deps_set) = 3
    /\ deps_set[3] = "D=1.0"
    /\ deps_pkgs[Len(deps_pkgs)].optional_deps[1].satisfier = Some("D=1.0")
    /\ "D=1.0" \notin RuntimeKeys

----------------------------------------------------------------------------
(* C18 *)

\* the packages of a handle
PackagesOf(h) ==
    Range(h.localdb.pkgs) \cup UNION {Range(h.syncdbs[d].pkgs) : d \in 1..Len(h.syncdbs)}

\* the handles the records were made from: the current one and the one
\* before a rerun
Handles == {handle} \cup (IF IsSome(prev_run) THEN {Unwrap(prev_run).handle} ELSE {})

\* the companion is the projection of a package of the record's name from
\* the other side than the record's own
ProjectedFromOtherSide(companion, pkg_info) ==
    \E h \in Handles : \E pkg \in PackagesOf(h) :
        /\ pkg.name = pkg_info.name
        /\ IsLocal(pkg) <=> pkg_info.repository # Some("local")
        /\ companion = PackageInfoFrom(pkg)

\* the record has key IDs only as decode_keyid stores them, from signatures,
\* and no companion, or a companion that is a projection, with neither
\* companion nor key IDs
AtMostOneLevel(pkg_info) ==
    /\ IsSome(pkg_info.key_id) =>
          /\ IsSome(pkg_info.signatures)
          /\ Unwrap(pkg_info.key_id) \in KeyidResults(pkg_info)
    /\ pkg_filters.plain => pkg_info.sync_with = None
    /\ IsSome(pkg_info.sync_with) =>
          /\ Unwrap(pkg_info.sync_with).sync_with = None
          /\ Unwrap(pkg_info.sync_with).key_id = None
          /\ ProjectedFromOtherSide(Unwrap(pkg_info.sync_with), pkg_info)

\* the record of an Option, if any, has at most one level
AtMostOneLevelIfSome(option) == IsSome(option) => AtMostOneLevel(Unwrap(option))

\* the record of an Option, if any, has no key IDs
NoKeyIdIfSome(option) == IsSome(option) => Unwrap(option).key_id = None

\* C18: the projection of every package has no companion and no key IDs, and
\* every record of a single query or of a closure, pushed or in progress,
\* decoded or not, whatever the sync and plain filters, has at most one level
\* of companion: its companion, if any, is a projection and has neither a
\* companion nor key IDs itself; key IDs are on no record before decode_keyid
\* is applied to it, and then only on a record with signatures
C18_OneLevelOfCompanion ==
    /\ \A pkg \in PackagesOf(handle) :
          /\ PackageInfoFrom(pkg).sync_with = None
          /\ PackageInfoFrom(pkg).key_id = None
    /\ \A j \in 1..Len(deps_pkgs) :
          /\ AtMostOneLevel(deps_pkgs[j])
          /\ pc # "done" => deps_pkgs[j].key_id = None
    /\ \A k \in 1..Len(stack) :
          /\ AtMostOneLevel(stack[k].pkg_info)
          /\ stack[k].pkg_info.key_id = None
    /\ IsSome(pkg_out) =>
          /\ AtMostOneLevelIfSome(Unwrap(pkg_out).pkg_info)
          /\ NoKeyIdIfSome(Unwrap(pkg_out).pkg_info)
          /\ AtMostOneLevelIfSome(Unwrap(pkg_out).result)

\* a closure of a local query over enriched records: every record pushed has
\* a companion, the first a sync record with the local one as companion
C18_Witness ==
    /\ Finished
    /\ ~pkg_filters.sync
    /\ Len(deps_pkgs) >= 2
    /\ \A j \in 1..Len(deps_pkgs) : IsSome(deps_pkgs[j].sync_with)
    /\ deps_pkgs[1].repository = Some("core")
    /\ Unwrap(deps_pkgs[1].sync_with).repository = Some("local")

\* a single plain query of a package both sides hold
C18_PlainQueryWitness ==
    /\ pc = "generated"
    /\ pkg_filters.plain
    /\ IsSome(Unwrap(pkg_out).result)
    /\ Holders(ComplementaryDatabases, Unwrap(pkg_out).pkg.name) # {}
    /\ Unwrap(Unwrap(pkg_out).result).sync_with = None

\* a record of a finished closure, decoded: the key IDs are on the record and
\* not on its companion
C18_DecodedWitness ==
    /\ pc = "done"
    /\ \E j \in 1..Len(deps_pkgs) :
          /\ IsSome(deps_pkgs[j].key_id)
          /\ IsSome(deps_pkgs[j].sync_with)
          /\ Unwrap(deps_pkgs[j].sync_with).key_id = None

====
